---- MODULE Spec2Model ----
(***************************************************************************)
(* Reepy: the response normalizers of src/src/ree_example.py               *)
(* (parse_generation_data, parse_indicator_data), run on bounded JSON-like *)
(* API responses.  One call is a small state machine: the guard of the     *)
(* function, one step per entry of the values sequence, and the return.    *)
(***************************************************************************)
EXTENDS Integers, Sequences, FiniteSets, TLC

\* ------------------------------------------------------------------------
\* Bounds of the explored inputs
\* ------------------------------------------------------------------------
\* Longest values sequence of a response.
MaxEntries == 2
\* Longest typed list / largest keyed mapping inside one entry.
MaxItems == 2

\* ------------------------------------------------------------------------
\* JSON-like values as Python sees them after response.json()
\* ------------------------------------------------------------------------
JNull == [kind |-> "null", num |-> 0, str |-> "", items |-> <<>>, pairs |-> <<>>]
JNum(n) == [kind |-> "num", num |-> n, str |-> "", items |-> <<>>, pairs |-> <<>>]
JStr(s) == [kind |-> "str", num |-> 0, str |-> s, items |-> <<>>, pairs |-> <<>>]
JList(xs) == [kind |-> "list", num |-> 0, str |-> "", items |-> xs, pairs |-> <<>>]
\* A dict keeps insertion order: a sequence of key/value pairs, keys distinct.
JDict(ps) == [kind |-> "dict", num |-> 0, str |-> "", items |-> <<>>, pairs |-> ps]
KV(k, v) == [key |-> k, val |-> v]

\* Outcome of a Python expression: a value, or an exception.
Ok(v) == [ok |-> TRUE, exc |-> "", val |-> v]
Raise(e) == [ok |-> FALSE, exc |-> e, val |-> JNull]

\* bool(v): None, 0, "", [] and {} are falsy.
PyTruthy(v) ==
    CASE v.kind = "null" -> FALSE
      [] v.kind = "num" -> v.num # 0
      [] v.kind = "str" -> v.str # ""
      [] v.kind = "list" -> Len(v.items) > 0
      [] v.kind = "dict" -> Len(v.pairs) > 0

HasKey(d, k) == \E j \in 1..Len(d.pairs) : d.pairs[j].key = k

\* `k in v` for a string k: key test on a dict, element test on a list,
\* TypeError on None and on a number.  (Strings are not drawn as containers.)
PyIn(k, v) ==
    CASE v.kind = "dict" -> Ok(IF HasKey(v, k) THEN JNum(1) ELSE JNum(0))
      [] v.kind = "list" -> Ok(IF \E j \in 1..Len(v.items) : v.items[j] = JStr(k)
                               THEN JNum(1) ELSE JNum(0))
      [] OTHER -> Raise("TypeError")

\* v[k] for a string k: KeyError on a dict without k, TypeError on a
\* non-dict (None, number, string, list).
PyGetItem(v, k) ==
    IF v.kind = "dict"
    THEN IF HasKey(v, k)
         THEN Ok(v.pairs[CHOOSE j \in 1..Len(v.pairs) : v.pairs[j].key = k].val)
         ELSE Raise("KeyError")
    ELSE Raise("TypeError")

\* iter(v) as `for x in v` sees it: the elements of a list, the keys of a
\* dict, TypeError on None and on a number.
PyIter(v) ==
    CASE v.kind = "list" -> Ok(v)
      [] v.kind = "dict" -> Ok(JList([j \in 1..Len(v.pairs) |-> JStr(v.pairs[j].key)]))
      [] OTHER -> Raise("TypeError")

\* ------------------------------------------------------------------------
\* pandas.DataFrame(records) for a list of dict records
\* ------------------------------------------------------------------------
JNaN == [kind |-> "nan", num |-> 0, str |-> "", items |-> <<>>, pairs |-> <<>>]

RECURSIVE AddKeys(_, _)
\* cols extended by the keys of ps that it does not hold yet, in order.
AddKeys(cols, ps) ==
    IF ps = <<>> THEN cols
    ELSE AddKeys(IF \E j \in 1..Len(cols) : cols[j] = Head(ps).key
                 THEN cols ELSE Append(cols, Head(ps).key),
                 Tail(ps))

RECURSIVE ColumnsOf(_, _)
\* Columns are the union of the records' keys in order of first appearance.
ColumnsOf(cols, recs) ==
    IF recs = <<>> THEN cols
    ELSE ColumnsOf(AddKeys(cols, Head(recs).pairs), Tail(recs))

\* A record laid out on the columns; a key the record lacks is filled with NaN.
RowOf(rec, cols) ==
    JDict([j \in 1..Len(cols) |->
              KV(cols[j], IF HasKey(rec, cols[j])
                          THEN PyGetItem(rec, cols[j]).val ELSE JNaN)])

\* DataFrame followed by drop_duplicates(): a row equal to an earlier one is
\* left out.
DataFrameDropDuplicates(recs) ==
    LET cols == ColumnsOf(<<>>, recs)
        rows == [j \in 1..Len(recs) |-> RowOf(recs[j], cols)]
        keep == {j \in 1..Len(rows) : \A h \in 1..(j - 1) : rows[h] # rows[j]}
        Nth(n) == CHOOSE j \in keep : Cardinality({h \in keep : h < j}) = n - 1
    IN  [columns |-> cols, rows |-> [n \in 1..Cardinality(keep) |-> rows[Nth(n)]]]

\* pd.DataFrame(records): one row per record, in list order; pd.DataFrame()
\* and pd.DataFrame([]) have neither rows nor columns.
DataFrame(recs) ==
    LET cols == ColumnsOf(<<>>, recs)
    IN  [columns |-> cols, rows |-> [j \in 1..Len(recs) |-> RowOf(recs[j], cols)]]

EmptyDataFrame == DataFrame(<<>>)

\* df.empty
IsEmpty(df) == Len(df.rows) = 0 \/ Len(df.columns) = 0

\* ------------------------------------------------------------------------
\* parse_generation_data / parse_indicator_data
\* ------------------------------------------------------------------------
\* Outcome of a stretch of the loop body: the records appended by it, and
\* whether it ran to its end or raised.
Done(recs) == [ok |-> TRUE, exc |-> "", recs |-> recs]
Fail(e, recs) == [ok |-> FALSE, exc |-> e, recs |-> recs]

GenRecord(dt, ty, v) == JDict(<<KV("datetime", dt), KV("type", ty), KV("value", v)>>)

\* The lookup without the `not data` half of the guard.
LookupValuesUnguarded(data) ==
    LET member == PyIn("indicator", data)
    IN  IF ~member.ok THEN [out |-> "raise", exc |-> member.exc, val |-> JNull]
        ELSE IF member.val = JNum(0) THEN [out |-> "empty", exc |-> "", val |-> JNull]
        ELSE LET ind == PyGetItem(data, "indicator")
             IN  IF ~ind.ok THEN [out |-> "raise", exc |-> ind.exc, val |-> JNull]
                 ELSE LET vals == PyGetItem(ind.val, "values")
                      IN  IF ~vals.ok
                          THEN [out |-> "raise", exc |-> vals.exc, val |-> JNull]
                          ELSE [out |-> "values", exc |-> "", val |-> vals.val]

\* Lines 68-71 (and 160-163): the guard and the lookup of the values.
\*   "empty"  : return pd.DataFrame()
\*   "raise"  : an exception leaves the function
\*   "values" : val is data['indicator']['values']
LookupValues(data) ==
    IF ~PyTruthy(data) THEN [out |-> "empty", exc |-> "", val |-> JNull]
    ELSE LET member == PyIn("indicator", data)
         IN  IF ~member.ok THEN [out |-> "raise", exc |-> member.exc, val |-> JNull]
             ELSE IF member.val = JNum(0) THEN [out |-> "empty", exc |-> "", val |-> JNull]
             ELSE LET ind == PyGetItem(data, "indicator")
                  IN  IF ~ind.ok THEN [out |-> "raise", exc |-> ind.exc, val |-> JNull]
                      ELSE LET vals == PyGetItem(ind.val, "values")
                           IN  IF ~vals.ok
                               THEN [out |-> "raise", exc |-> vals.exc, val |-> JNull]
                               ELSE [out |-> "values", exc |-> "", val |-> vals.val]

RECURSIVE TypedListRecordsReversed(_, _, _)
\* The list loop with records.insert(0, ...) in place of records.append(...).
TypedListRecordsReversed(dt, elems, acc) ==
    IF elems = <<>> THEN Done(acc)
    ELSE LET ty == PyGetItem(Head(elems), "type")
             v == PyGetItem(Head(elems), "value")
         IN  IF ~ty.ok THEN Fail(ty.exc, acc)
             ELSE IF ~v.ok THEN Fail(v.exc, acc)
             ELSE TypedListRecordsReversed(dt, Tail(elems),
                                           <<GenRecord(dt, ty.val, v.val)>> \o acc)

RECURSIVE TypedListRecords(_, _, _)
\* Lines 82-87: one record per element of the list; the first element that
\* lacks 'type' or 'value' raises, after the records of the elements before it.
TypedListRecords(dt, elems, acc) ==
    IF elems = <<>> THEN Done(acc)
    ELSE LET ty == PyGetItem(Head(elems), "type")
             v == PyGetItem(Head(elems), "value")
         IN  IF ~ty.ok THEN Fail(ty.exc, acc)
             ELSE IF ~v.ok THEN Fail(v.exc, acc)
             ELSE TypedListRecords(dt, Tail(elems),
                                   Append(acc, GenRecord(dt, ty.val, v.val)))

\* The dict loop with type_name and type_value exchanged.
MappingRecordsSwapped(dt, ps) ==
    [j \in 1..Len(ps) |-> GenRecord(dt, ps[j].val, JStr(ps[j].key))]

\* Lines 97-102: one record per item of the dict, in iteration order.
MappingRecords(dt, ps) ==
    [j \in 1..Len(ps) |-> GenRecord(dt, JStr(ps[j].key), ps[j].val)]

\* The loop body with the list branch only, as first written for the
\* "original expected structure".
GenerationEntryListOnly(value) ==
    LET dt == PyGetItem(value, "datetime")
        vd == PyGetItem(value, "value")
    IN  IF ~dt.ok THEN Fail(dt.exc, <<>>)
        ELSE IF ~vd.ok THEN Fail(vd.exc, <<>>)
        ELSE IF vd.val.kind = "list" THEN TypedListRecords(dt.val, vd.val.items, <<>>)
        ELSE Done(<<>>)

\* The loop body with a final `else: raise ValueError`.
GenerationEntryStrict(value) ==
    LET dt == PyGetItem(value, "datetime")
        vd == PyGetItem(value, "value")
    IN  IF ~dt.ok THEN Fail(dt.exc, <<>>)
        ELSE IF ~vd.ok THEN Fail(vd.exc, <<>>)
        ELSE IF vd.val.kind = "list" THEN TypedListRecords(dt.val, vd.val.items, <<>>)
        ELSE IF vd.val.kind = "num" THEN Done(<<GenRecord(dt.val, JStr("total"), vd.val)>>)
        ELSE IF vd.val.kind = "dict" THEN Done(MappingRecords(dt.val, vd.val.pairs))
        ELSE Fail("ValueError", <<>>)

\* Lines 76-102: the body of the loop of parse_generation_data for one entry.
GenerationEntry(value) ==
    LET dt == PyGetItem(value, "datetime")
        vd == PyGetItem(value, "value")
    IN  IF ~dt.ok THEN Fail(dt.exc, <<>>)
        ELSE IF ~vd.ok THEN Fail(vd.exc, <<>>)
        ELSE IF vd.val.kind = "list" THEN TypedListRecords(dt.val, vd.val.items, <<>>)
        ELSE IF vd.val.kind = "num" THEN Done(<<GenRecord(dt.val, JStr("total"), vd.val)>>)
        ELSE IF vd.val.kind = "dict" THEN Done(MappingRecords(dt.val, vd.val.pairs))
        ELSE Done(<<>>)

\* The body of the loop with the dispatch of parse_generation_data: an entry
\* whose value is not a number gives no record.
IndicatorEntryScalarOnly(value) ==
    LET dt == PyGetItem(value, "datetime")
        vd == PyGetItem(value, "value")
    IN  IF ~dt.ok THEN Fail(dt.exc, <<>>)
        ELSE IF ~vd.ok THEN Fail(vd.exc, <<>>)
        ELSE IF vd.val.kind # "num" THEN Done(<<>>)
        ELSE Done(<<JDict(<<KV("datetime", dt.val), KV("value", vd.val)>>)>>)

\* Lines 168-171: the body of the loop of parse_indicator_data for one entry.
IndicatorEntry(value) ==
    LET dt == PyGetItem(value, "datetime")
        vd == PyGetItem(value, "value")
    IN  IF ~dt.ok THEN Fail(dt.exc, <<>>)
        ELSE IF ~vd.ok THEN Fail(vd.exc, <<>>)
        ELSE Done(<<JDict(<<KV("datetime", dt.val), KV("value", vd.val)>>)>>)

\* ------------------------------------------------------------------------
\* The responses explored
\* ------------------------------------------------------------------------
SeqsUpTo(S, n) == UNION {[1..k -> S] : k \in 0..n}

Element(ty, v) == JDict(<<KV("type", ty), KV("value", v)>>)
\* Elements of a typed list that supply both fields: a numeric value and a
\* non-numeric one.
FullElements == {Element(JStr("Wind"), JNum(1)), Element(JStr("Coal"), JStr("x"))}
\* Elements that lack 'type' or lack 'value'.
PartElements == {JDict(<<KV("value", JNum(2))>>), JDict(<<KV("type", JStr("Wind"))>>)}

\* Typed lists, one of them with an element whose type is null.  An element
\* that lacks a field ends its list, since nothing after it is ever read.
FullLists ==
    {JList(xs) : xs \in SeqsUpTo(FullElements, MaxItems)}
        \cup {JList(<<Element(JNull, JNum(2))>>)}
PartLists ==
    {JList(Append(xs, e)) : xs \in SeqsUpTo(FullElements, MaxItems - 1), e \in PartElements}

\* Keyed mappings: "datetime" is a key that is also a field name of a record.
MappingPairs == {KV("Wind", JNum(1)), KV("Coal", JStr("x")), KV("datetime", JNum(2))}
Mappings ==
    {JDict(ps) : ps \in {qs \in SeqsUpTo(MappingPairs, MaxItems) :
                            \A a, b \in 1..Len(qs) : a # b => qs[a].key # qs[b].key}}

Scalars == {JNum(1), JNum(2)}
\* Values of a shape the dispatch does not know.
OtherShapes == {JStr("x"), JNull}

\* Values of entries whose processing runs to its end.
FullValues == Scalars \cup OtherShapes \cup FullLists \cup Mappings

\* The entries of a series carry successive timestamps: the k-th has "k".
Stamp(k) == JStr(ToString(k))
Entry(k, v) == JDict(<<KV("datetime", Stamp(k)), KV("value", v)>>)
Entries(vs) == [k \in 1..Len(vs) |-> Entry(k, vs[k])]
\* Entries whose processing raises: no 'datetime', no 'value', a list with an
\* element that lacks a field.
PartEntries(k) ==
    {JDict(<<KV("value", JNum(1))>>), JDict(<<KV("datetime", Stamp(k))>>)}
        \cup {Entry(k, v) : v \in PartLists}

Response(vs) == JDict(<<KV("indicator", JDict(<<KV("name", JStr("n")), KV("values", vs)>>))>>)

\* Responses without a values sequence: null, empty and non-dict bodies, a
\* body without 'indicator', an indicator without 'values', a null indicator,
\* null values.
BareResponses ==
    {JNull, JDict(<<>>), JList(<<>>), JNum(0), JNum(5),
     JDict(<<KV("errors", JStr("x"))>>),
     JDict(<<KV("indicator", JDict(<<KV("name", JStr("n"))>>))>>),
     JDict(<<KV("indicator", JNull)>>),
     Response(JNull)}

\* What response.json() may hand to the parsers: a bare response, or a values
\* sequence of at most MaxEntries entries; an entry that raises ends the
\* sequence, since nothing after it is ever read.
IsResponse(d) ==
    \/ d \in BareResponses
    \/ \E n \in 0..MaxEntries : \E vs \in [1..n -> FullValues] :
          d = Response(JList(Entries(vs)))
    \/ \E n \in 0..(MaxEntries - 1) : \E vs \in [1..n -> FullValues] :
          \E e \in PartEntries(n + 1) : d = Response(JList(Append(Entries(vs), e)))

Functions == {"parse_generation_data", "parse_indicator_data"}

\* ------------------------------------------------------------------------
\* One call of a parser
\* ------------------------------------------------------------------------
VARIABLES
    fn,        \* the function called
    data,      \* its argument
    pc,        \* "call", "loop", "returned", "raised"
    values,    \* the sequence the loop walks
    idx,       \* index of the next entry of values
    records,   \* the local list records
    result,    \* the DataFrame returned
    exc,       \* the exception raised
    frames,    \* the DataFrame objects alive; frames[1] is the caller's table
    ref,       \* which of frames the returned value is (0: none of them)
    sent,      \* the HTTP requests issued through the session
    cache,     \* what st.cache_data holds of load_data: arguments and value
    ui,        \* the messages shown through st.error and st.warning
    loads      \* the calls of load_data made, with the requests of each

vars == <<fn, data, pc, values, idx, records, result, exc, frames, ref, sent, cache, ui, loads>>

\* The dashboard is not running: nothing cached, shown or loaded.
NoSession == UNCHANGED <<cache, ui, loads>>
FreshSession == cache = {} /\ ui = <<>> /\ loads = <<>>

\* What a call of a parser leaves alone.
NoObjects == UNCHANGED <<frames, ref, sent>> /\ NoSession

Init ==
    /\ fn \in Functions
    /\ IsResponse(data)
    /\ pc = "call"
    /\ values = <<>>
    /\ idx = 1
    /\ records = <<>>
    /\ result = EmptyDataFrame
    /\ exc = ""
    /\ frames = <<>>
    /\ ref = 0
    /\ sent = <<>>
    /\ FreshSession

\* Lines 68-75 / 160-167: guard, lookup of the values, records = [], and the
\* start of the for loop.
Enter(f) ==
    /\ fn = f
    /\ pc = "call"
    /\ LET look == LookupValues(data)
           it == PyIter(look.val)
       IN  CASE look.out = "empty" ->
                   /\ pc' = "returned"
                   /\ result' = EmptyDataFrame
                   /\ UNCHANGED <<values, exc>>
             [] look.out = "raise" ->
                   /\ pc' = "raised"
                   /\ exc' = look.exc
                   /\ UNCHANGED <<values, result>>
             [] look.out = "values" /\ ~it.ok ->
                   /\ pc' = "raised"
                   /\ exc' = it.exc
                   /\ UNCHANGED <<values, result>>
             [] look.out = "values" /\ it.ok ->
                   /\ pc' = "loop"
                   /\ values' = it.val.items
                   /\ UNCHANGED <<result, exc>>
    /\ idx' = 1
    /\ records' = <<>>
    /\ UNCHANGED <<fn, data>>
    /\ NoObjects

\* One pass through the loop body, to its end or to the exception it raises.
Step(f, out) ==
    /\ fn = f
    /\ pc = "loop"
    /\ idx <= Len(values)
    /\ records' = records \o out.recs
    /\ IF out.ok
       THEN /\ idx' = idx + 1
            /\ UNCHANGED <<pc, exc>>
       ELSE /\ pc' = "raised"
            /\ exc' = out.exc
            /\ UNCHANGED idx
    /\ UNCHANGED <<fn, data, values, result>>
    /\ NoObjects

\* Line 104 / 173: return pd.DataFrame(records).
Return(f) ==
    /\ fn = f
    /\ pc = "loop"
    /\ idx > Len(values)
    /\ pc' = "returned"
    /\ result' = DataFrame(records)
    /\ UNCHANGED <<fn, data, values, idx, records, exc>>
    /\ NoObjects

ParseGenerationEnter == Enter("parse_generation_data")
ParseGenerationEntry ==
    /\ pc = "loop" /\ idx <= Len(values)
    /\ Step("parse_generation_data", GenerationEntry(values[idx]))
ParseGenerationReturn == Return("parse_generation_data")

ParseIndicatorEnter == Enter("parse_indicator_data")
ParseIndicatorEntry ==
    /\ pc = "loop" /\ idx <= Len(values)
    /\ Step("parse_indicator_data", IndicatorEntry(values[idx]))
ParseIndicatorReturn == Return("parse_indicator_data")

Next ==
    \/ ParseGenerationEnter
    \/ ParseGenerationEntry
    \/ ParseGenerationReturn
    \/ ParseIndicatorEnter
    \/ ParseIndicatorEntry
    \/ ParseIndicatorReturn

Spec == Init /\ [][Next]_vars

TypeOK ==
    /\ pc \in {"call", "loop", "returned", "raised"}
    /\ idx \in 1..(MaxEntries + 1)
    /\ (pc = "raised") = (exc # "")

\* ------------------------------------------------------------------------
\* Vocabulary of the properties
\* ------------------------------------------------------------------------
Field(d, k) == PyGetItem(d, k).val

\* The response carries a values sequence under indicator.
HasValuesList(d) ==
    /\ d.kind = "dict" /\ HasKey(d, "indicator")
    /\ Field(d, "indicator").kind = "dict" /\ HasKey(Field(d, "indicator"), "values")
    /\ Field(Field(d, "indicator"), "values").kind = "list"

\* The entries of the response under parse.
InputEntries == Field(Field(data, "indicator"), "values").items

\* The top-level indicator-values path is missing from a response body.
LacksValuesPath(d) ==
    /\ d.kind = "dict"
    /\ \/ ~HasKey(d, "indicator")
       \/ Field(d, "indicator").kind = "dict" /\ ~HasKey(Field(d, "indicator"), "values")

IsStamped(e) == e.kind = "dict" /\ HasKey(e, "datetime") /\ HasKey(e, "value")
ShapeOf(e) == Field(e, "value").kind
IsScalarEntry(e) == IsStamped(e) /\ ShapeOf(e) = "num"
IsMappingEntry(e) == IsStamped(e) /\ ShapeOf(e) = "dict"
IsOtherEntry(e) == IsStamped(e) /\ ShapeOf(e) \in {"str", "null"}
IsTypedElement(x) == x.kind = "dict" /\ HasKey(x, "type") /\ HasKey(x, "value")
IsTypedListEntry(e) ==
    /\ IsStamped(e) /\ ShapeOf(e) = "list"
    /\ \A j \in 1..Len(Field(e, "value").items) : IsTypedElement(Field(e, "value").items[j])

\* A Record of the Table: timestamp, category, value.
TableRow(dt, cat, v) == JDict(<<KV("datetime", dt), KV("type", cat), KV("value", v)>>)

\* The Records the normalizer is to emit for one entry, by shape.
ScalarRows(e) == <<TableRow(Field(e, "datetime"), JStr("total"), Field(e, "value"))>>
TypedListRows(e) ==
    LET xs == Field(e, "value").items
    IN  [j \in 1..Len(xs) |->
            TableRow(Field(e, "datetime"), Field(xs[j], "type"), Field(xs[j], "value"))]
MappingRows(e) ==
    LET ps == Field(e, "value").pairs
    IN  [j \in 1..Len(ps) |-> TableRow(Field(e, "datetime"), JStr(ps[j].key), ps[j].val)]
EntryRows(e) ==
    IF IsScalarEntry(e) THEN ScalarRows(e)
    ELSE IF IsTypedListEntry(e) THEN TypedListRows(e)
    ELSE IF IsMappingEntry(e) THEN MappingRows(e)
    ELSE <<>>

RECURSIVE AllRows(_)
\* The Records of a sequence of entries, entry after entry.
AllRows(es) == IF es = <<>> THEN <<>> ELSE EntryRows(Head(es)) \o AllRows(Tail(es))

\* The rows of the returned Table that carry the timestamp of the k-th entry.
RowsAt(k) ==
    LET AtK(r) == Field(r, "datetime") = Stamp(k)
    IN  SelectSeq(result.rows, AtK)

RECURSIVE IsSubseq(_, _)
\* s is t with some elements left out.
IsSubseq(s, t) ==
    IF s = <<>> THEN TRUE
    ELSE IF t = <<>> THEN FALSE
    ELSE IF Head(s) = Head(t) THEN IsSubseq(Tail(s), Tail(t))
    ELSE IsSubseq(s, Tail(t))

\* Field names of a Record.
ReservedNames == {"datetime", "type", "value"}

Generation == fn = "parse_generation_data"
Returned == pc = "returned"

\* ------------------------------------------------------------------------
\* Properties of parse_generation_data (normalize)
\* ------------------------------------------------------------------------
\* The inputs C1 names: null, the empty mapping, an empty values sequence.
IsVoidResponse(d) ==
    \/ d = JNull
    \/ d = JDict(<<>>)
    \/ HasValuesList(d) /\ Field(Field(d, "indicator"), "values").items = <<>>

\* C1: on a null response, on {} and on a response whose values sequence is
\* empty, parse_generation_data does not raise and what it returns is an
\* empty Table.
C1_VoidResponseGivesEmptyTable ==
    (Generation /\ IsVoidResponse(data)) =>
        /\ pc # "raised"
        /\ Returned => (IsEmpty(result) /\ result = EmptyDataFrame)

C1_Witness ==
    Generation /\ Returned /\ data = Response(JList(<<>>)) /\ IsEmpty(result)

\* C2: on every response that lacks the indicator-values path, also one that
\* has 'indicator' but no 'values' under it, parse_generation_data does not
\* raise and returns an empty Table.
C2_MissingPathGivesEmptyTable ==
    (Generation /\ LacksValuesPath(data)) =>
        /\ pc # "raised"
        /\ Returned => IsEmpty(result)

\* C3: parse_generation_data never raises on a response that carries a
\* values sequence, whatever its entries and typed-list elements lack.
C3_NeverRaises ==
    (Generation /\ HasValuesList(data)) => pc # "raised"

\* C4: a response of N entries that each carry a timestamp and a plain number
\* gives exactly N Records, in input order, each with the entry's timestamp,
\* the entry's number, and the category "total".
C4_ScalarEntries ==
    (Generation /\ HasValuesList(data)
        /\ \A k \in 1..Len(InputEntries) : IsScalarEntry(InputEntries[k])) =>
        /\ pc # "raised"
        /\ Returned =>
              /\ Len(result.rows) = Len(InputEntries)
              /\ \A k \in 1..Len(InputEntries) :
                    result.rows[k] = TableRow(Field(InputEntries[k], "datetime"),
                                              JStr("total"),
                                              Field(InputEntries[k], "value"))

C4_Witness ==
    /\ Generation /\ Returned
    /\ data = Response(JList(Entries(<<JNum(2), JNum(1)>>)))
    /\ Len(result.rows) = 2

\* C5: for every entry whose value is a typed list, the Table holds exactly
\* one Record per element of the list, in list order, with the element's
\* type as category, the element's value, and the entry's timestamp.
C5_TypedListEntries ==
    (Generation /\ Returned /\ HasValuesList(data)) =>
        \A k \in 1..Len(InputEntries) :
            IsTypedListEntry(InputEntries[k]) =>
                RowsAt(k) = TypedListRows(InputEntries[k])

C5_Witness ==
    /\ Generation /\ Returned
    /\ data = Response(JList(Entries(<<JNum(1),
                    JList(<<Element(JStr("Coal"), JStr("x")),
                            Element(JStr("Wind"), JNum(1))>>)>>)))
    /\ Len(RowsAt(2)) = 2

\* C6: for every entry whose value is a keyed mapping, the Table holds one
\* Record per key/value pair, with the key as category and the mapped value,
\* in iteration order; no Record is invented, and a pair without a Record
\* has a key that is a field name of a Record.
C6_MappingEntries ==
    (Generation /\ Returned /\ HasValuesList(data)) =>
        \A k \in 1..Len(InputEntries) :
            IsMappingEntry(InputEntries[k]) =>
                LET Free(r) == Field(r, "type").str \notin ReservedNames
                IN  /\ SelectSeq(RowsAt(k), Free)
                          = SelectSeq(MappingRows(InputEntries[k]), Free)
                    /\ IsSubseq(RowsAt(k), MappingRows(InputEntries[k]))

C6_Witness ==
    /\ Generation /\ Returned
    /\ data = Response(JList(Entries(<<JDict(<<KV("Coal", JStr("x")),
                                               KV("Wind", JNum(1))>>)>>)))
    /\ Len(RowsAt(1)) = 2

\* C7: an entry whose value is a string or null is never the entry that
\* raises, contributes no Record, and every sibling entry of a known shape
\* still has its Records in the Table.
C7_OtherShapeSkipped ==
    (Generation /\ HasValuesList(data)) =>
        /\ (pc = "raised" /\ idx <= Len(InputEntries)) => ~IsOtherEntry(InputEntries[idx])
        /\ (Returned /\ \E k \in 1..Len(InputEntries) : IsOtherEntry(InputEntries[k])) =>
              \A k \in 1..Len(InputEntries) :
                  /\ IsOtherEntry(InputEntries[k]) => RowsAt(k) = <<>>
                  /\ ~IsOtherEntry(InputEntries[k]) => RowsAt(k) = EntryRows(InputEntries[k])

C7_Witness ==
    /\ Generation /\ Returned
    /\ data = Response(JList(Entries(<<JStr("x"), JNum(1)>>)))
    /\ Len(result.rows) = 1

\* C8: the Table lists the Records in encounter order, also for entries of
\* mixed shapes: the Records of the first entry, then those of the second,
\* each entry's in list or mapping order, none dropped and none moved.
C8_EncounterOrder ==
    (Generation /\ Returned /\ HasValuesList(data)) =>
        result.rows = AllRows(InputEntries)

C8_Witness ==
    /\ Generation /\ Returned
    /\ data = Response(JList(Entries(<<JList(<<Element(JStr("Wind"), JNum(1)),
                                               Element(JStr("Wind"), JNum(1))>>),
                                       JDict(<<KV("Wind", JNum(1))>>)>>)))
    /\ Len(result.rows) = 3

\* C9: every Record of the Table has a numeric value.
C9_ValuesNumeric ==
    (Generation /\ Returned) =>
        \A j \in 1..Len(result.rows) : Field(result.rows[j], "value").kind = "num"

\* The entry a row of the Table came from has the Scalar shape.
FromScalarEntry(r) ==
    \E k \in 1..Len(InputEntries) :
        /\ IsScalarEntry(InputEntries[k])
        /\ Field(InputEntries[k], "datetime") = Field(r, "datetime")

\* C10: every Record of a Table of parse_generation_data or of
\* parse_indicator_data has a category that is a string, and the category is
\* "total" only for a Record that came from an entry of the Scalar shape.
C10_CategoryNeverNull ==
    Returned =>
        \A j \in 1..Len(result.rows) :
            /\ HasKey(result.rows[j], "type")
            /\ Field(result.rows[j], "type").kind = "str"
            /\ Field(result.rows[j], "type") = JStr("total") => FromScalarEntry(result.rows[j])

\* ========================================================================
\* The metrics of src/reepi/utils/data_processing.py
\* ========================================================================
\* Most rows of an explored table.
MaxRows == 2

\* ------------------------------------------------------------------------
\* Cells and pandas operations
\* ------------------------------------------------------------------------
Abs(n) == IF n < 0 THEN -n ELSE n

RECURSIVE GCD(_, _)
GCD(a, b) == IF b = 0 THEN a ELSE GCD(b, a % b)

\* A float result, kept as the exact quotient n/d in lowest terms, d > 0
\* (the rounding of the IEEE double is not modelled).
Float(n, d) ==
    LET g == GCD(Abs(n), Abs(d))
        sgn == IF d < 0 THEN -1 ELSE 1
    IN  [kind |-> "float", num |-> sgn * (n \div g), den |-> sgn * (d \div g)]

\* A pandas Timestamp (day and hour) and a datetime.date.
JTime(d, h) == [kind |-> "timestamp", day |-> d, hour |-> h]
JDate(d) == [kind |-> "date", day |-> d]

\* pd.to_datetime(..., errors="coerce") of one cell: what cannot be parsed
\* becomes NaT instead of raising.
ToDatetimeCoerce(c) ==
    CASE c.kind = "timestamp" -> Ok(c)
      [] c.kind = "nan" -> Ok(JTime(0, 0))
      [] c = JStr("2023-01-01 12:00:00") -> Ok(JTime(1, 12))
      [] c = JStr("2023-01-01 18:00:00") -> Ok(JTime(1, 18))
      [] c = JStr("2023-01-02 12:00:00") -> Ok(JTime(2, 12))
      [] c = JStr("2023-01-02 18:00:00") -> Ok(JTime(2, 18))
      [] OTHER -> Ok(JTime(0, 0))

\* pd.to_datetime of one cell: a Timestamp stays, a missing cell (NaN)
\* becomes NaT, an ISO string is parsed, any other string raises.
ToDatetime(c) ==
    CASE c.kind = "timestamp" -> Ok(c)
      [] c.kind = "nan" -> Ok(JTime(0, 0))
      [] c = JStr("2023-01-01 12:00:00") -> Ok(JTime(1, 12))
      [] c = JStr("2023-01-01 18:00:00") -> Ok(JTime(1, 18))
      [] c = JStr("2023-01-02 12:00:00") -> Ok(JTime(2, 12))
      [] c = JStr("2023-01-02 18:00:00") -> Ok(JTime(2, 18))
      [] OTHER -> Raise("ValueError")

\* `col in df.columns`
HasColumn(df, col) == \E j \in 1..Len(df.columns) : df.columns[j] = col

\* df[col] = series: the cell of col in row j set to series[j], a new column
\* appended after the others.
SetColumn(df, col, series) ==
    [columns |-> IF HasColumn(df, col) THEN df.columns ELSE Append(df.columns, col),
     rows |-> [j \in 1..Len(df.rows) |->
                 IF HasKey(df.rows[j], col)
                 THEN JDict([i \in 1..Len(df.rows[j].pairs) |->
                               IF df.rows[j].pairs[i].key = col
                               THEN KV(col, series[j])
                               ELSE df.rows[j].pairs[i]])
                 ELSE JDict(Append(df.rows[j].pairs, KV(col, series[j])))]]

RECURSIVE SumOf(_, _)
\* Series.sum() of column col over a sequence of rows.
SumOf(rows, col) ==
    IF rows = <<>> THEN 0
    ELSE PyGetItem(Head(rows), col).val.num + SumOf(Tail(rows), col)

\* The order pandas sorts group keys in: strings by code point, dates by day.
SortedTypes == <<"Coal", "Nuclear", "Solar PV", "Wind">>
TypeRank(t) == CHOOSE j \in 1..Len(SortedTypes) : SortedTypes[j] = t.str
KeyBefore(a, b) ==
    IF a.kind = "date" THEN a.day < b.day ELSE TypeRank(a) < TypeRank(b)

\* Lexicographic order of two group keys (tuples of cells).
RECURSIVE KeysBefore(_, _)
KeysBefore(ka, kb) ==
    IF ka = <<>> THEN FALSE
    ELSE IF Head(ka) # Head(kb) THEN KeyBefore(Head(ka), Head(kb))
    ELSE KeysBefore(Tail(ka), Tail(kb))

\* The key of a row under df.groupby(by).
GroupKey(row, by) == [j \in 1..Len(by) |-> PyGetItem(row, by[j]).val]

\* The distinct keys of df.groupby(by, sort=False): in order of first
\* appearance.
GroupKeysUnsorted(rows, by) ==
    LET keys == {GroupKey(rows[j], by) : j \in 1..Len(rows)}
        First(k) == CHOOSE j \in 1..Len(rows) :
                        /\ GroupKey(rows[j], by) = k
                        /\ \A i \in 1..(j - 1) : GroupKey(rows[i], by) # k
        Nth(n) == CHOOSE k \in keys :
                      Cardinality({h \in keys : First(h) < First(k)}) = n - 1
    IN  [n \in 1..Cardinality(keys) |-> Nth(n)]

\* The distinct keys of df.groupby(by), in sorted order (sort=True).
GroupKeys(rows, by) ==
    LET keys == {GroupKey(rows[j], by) : j \in 1..Len(rows)}
        Nth(n) == CHOOSE k \in keys :
                      Cardinality({h \in keys : KeysBefore(h, k)}) = n - 1
    IN  [n \in 1..Cardinality(keys) |-> Nth(n)]

\* The rows of one group.
GroupRows(rows, by, key) ==
    LET InGroup(r) == GroupKey(r, by) = key
    IN  SelectSeq(rows, InGroup)

\* groupby(...).first(): the value of the first row of the group.
FirstOfGroup(rows, col) == PyGetItem(rows[1], col).val

\* groupby(...).sum() of one group.
SumOfGroup(rows, col) == JNum(SumOf(rows, col))

\* groupby(...).sum() of one group, as a float.
MeanOfGroupAsSum(rows, col) == Float(SumOf(rows, col), 1)

\* groupby(...).mean() of one group.
MeanOfGroup(rows, col) == Float(SumOf(rows, col), Len(rows))

\* The aggregation of one group: .sum() or .mean().
Aggregate(agg, rows, col) ==
    IF agg = "sum" THEN SumOfGroup(rows, col) ELSE MeanOfGroup(rows, col)

\* df.groupby(by)[col].<agg>().reset_index(): one row per group, the key
\* columns then col.
GroupAggregate(df, by, col, agg) ==
    LET keys == GroupKeys(df.rows, by)
    IN  [columns |-> Append(by, col),
         rows |-> [n \in 1..Len(keys) |->
                     JDict(Append([j \in 1..Len(by) |-> KV(by[j], keys[n][j])],
                                  KV(col, Aggregate(agg, GroupRows(df.rows, by, keys[n]), col))))]]

\* ------------------------------------------------------------------------
\* format_datetime, calculate_renewable_percentage, aggregate_by_type,
\* calculate_daily_average
\* ------------------------------------------------------------------------
\* The functions work on DataFrame objects: h is the sequence of the objects
\* alive, id the index of the argument in it (0: the argument is None).
\* A call ends with a value or with an exception, and leaves a heap.
Outcome(h, v, r) == [ok |-> TRUE, exc |-> "", heap |-> h, val |-> v, ref |-> r]
Thrown(e, h) == [ok |-> FALSE, exc |-> e, heap |-> h, val |-> JNull, ref |-> 0]

\* df_copy = df: no copy is taken, both names mean the caller's object.
DfAlias(h, id) == [heap |-> h, id |-> id]

\* df.copy(): a new object with the contents of the old one.
DfCopy(h, id) == [heap |-> Append(h, h[id]), id |-> Len(h) + 1]

\* Lines 20-23: format_datetime(df, datetime_col).
FormatDatetime(h, id, col) ==
    IF id = 0 THEN Thrown("AttributeError", h)
    ELSE LET c == DfCopy(h, id)
             df == c.heap[c.id]
             Parsed(r) == ToDatetime(PyGetItem(r, col).val)
             stamped == [j \in 1..Len(df.rows) |-> Parsed(df.rows[j]).val]
             conv == SetColumn(df, col, stamped)
         IN  IF ~HasColumn(df, col) THEN Outcome(c.heap, df, c.id)
             ELSE IF \E j \in 1..Len(df.rows) : ~Parsed(df.rows[j]).ok
             THEN Thrown("ValueError", c.heap)
             ELSE Outcome([c.heap EXCEPT ![c.id] = conv], conv, c.id)

\* Lines 35-38: renewable_types.
RenewableTypes ==
    {"Hydro", "Wind", "Solar PV", "Solar thermal", "Hydroeólica", "Geothermal",
     "Biomass", "Other renewables"}

\* The percentage without the guard of lines 47-48: the quotient of a zero
\* total is NaN, written 0/0.
RenewableQuotientUnguarded(renewable_sum, total_sum) ==
    IF total_sum = 0 THEN [kind |-> "float", num |-> 0, den |-> 0]
    ELSE Float(100 * renewable_sum, total_sum)

\* The share of the renewable sum in the total, not scaled to a percentage.
RenewableQuotientUnscaled(renewable_sum, total_sum) ==
    IF total_sum = 0 THEN Float(0, 1) ELSE Float(renewable_sum, total_sum)

\* Lines 47-50: 0.0 on a zero total, else (renewable_sum / total_sum) * 100.0.
RenewableQuotient(renewable_sum, total_sum) ==
    IF total_sum = 0 THEN Float(0, 1) ELSE Float(100 * renewable_sum, total_sum)

\* Lines 40-50: calculate_renewable_percentage(df).
CalculateRenewablePercentage(h, id) ==
    IF id = 0 THEN Thrown("AttributeError", h)
    ELSE LET df == h[id]
             IsRenewable(r) == PyGetItem(r, "type").val.str \in RenewableTypes
         IN  IF IsEmpty(df) THEN Outcome(h, Float(0, 1), 0)
             ELSE IF ~HasColumn(df, "type") \/ ~HasColumn(df, "value")
             THEN Thrown("KeyError", h)
             ELSE Outcome(h, RenewableQuotient(SumOf(SelectSeq(df.rows, IsRenewable), "value"),
                                               SumOf(df.rows, "value")), 0)

\* Lines 63-66: aggregate_by_type(df, value_col).
AggregateByType(h, id, value_col) ==
    IF id = 0 THEN Thrown("AttributeError", h)
    ELSE LET df == h[id]
             out == GroupAggregate(df, <<"type">>, value_col, "sum")
         IN  IF IsEmpty(df) THEN Outcome(h, df, id)
             ELSE IF ~HasColumn(df, "type") \/ ~HasColumn(df, value_col)
             THEN Thrown("KeyError", h)
             ELSE Outcome(Append(h, out), out, Len(h) + 1)

\* Lines 82-88: calculate_daily_average after df_copy = format_datetime(...);
\* cid is df_copy.
DailyAverageOfCopy(h, cid, datetime_col, value_col) ==
    LET df_copy == h[cid]
        DateOf(r) == JDate(PyGetItem(r, datetime_col).val.day)
        dated == SetColumn(df_copy, "date",
                           [j \in 1..Len(df_copy.rows) |-> DateOf(df_copy.rows[j])])
        daily_avg == GroupAggregate(dated, <<"date", "type">>, value_col, "mean")
    IN  IF IsEmpty(df_copy) THEN Outcome(h, df_copy, cid)
        ELSE IF ~HasColumn(df_copy, datetime_col) \/ ~HasColumn(df_copy, "type")
                  \/ ~HasColumn(df_copy, value_col)
        THEN Thrown("KeyError", h)
        ELSE Outcome(Append([h EXCEPT ![cid] = dated], daily_avg), daily_avg, Len(h) + 1)

\* ------------------------------------------------------------------------
\* The tables explored
\* ------------------------------------------------------------------------
MetricTypes == {"Wind", "Coal"}
MetricValues == {-100, 0, 100, 200}
MetricStamps ==
    {"2023-01-01 12:00:00", "2023-01-01 18:00:00", "2023-01-02 12:00:00", "not a date"}

\* A Record as the normalizer builds it.
MetricRecords ==
    {GenRecord(JStr(ts), JStr(ty), JNum(v)) :
        ts \in MetricStamps, ty \in MetricTypes, v \in MetricValues}

TypeValue(ty, v) == JDict(<<KV("type", JStr(ty)), KV("value", JNum(v))>>)
\* The tables of tests/test_reepi.py.
TestRenewableTable ==
    DataFrame(<<TypeValue("Wind", 200), TypeValue("Solar PV", 100),
                TypeValue("Nuclear", 400), TypeValue("Coal", 300)>>)
TestAggregateTable ==
    DataFrame(<<TypeValue("Wind", 100), TypeValue("Wind", 150),
                TypeValue("Solar PV", 200), TypeValue("Solar PV", 250)>>)
TestDailyTable ==
    DataFrame(<<GenRecord(JTime(1, 12), JStr("Wind"), JNum(100)),
                GenRecord(JTime(1, 18), JStr("Wind"), JNum(200)),
                GenRecord(JTime(2, 12), JStr("Wind"), JNum(300)),
                GenRecord(JTime(2, 18), JStr("Wind"), JNum(400))>>)

\* A table with its columns and no row, as a filter that keeps nothing gives.
NoRowsTable == [columns |-> <<"datetime", "type", "value">>, rows |-> <<>>]

\* What a caller may pass: None, a table of at most MaxRows Records (the one
\* of no Record is pd.DataFrame()), a table without rows, a table of the tests.
IsMetricInput(d) ==
    \/ d \in {JNull, NoRowsTable, TestRenewableTable, TestAggregateTable, TestDailyTable}
    \/ \E n \in 0..MaxRows : \E rs \in [1..n -> MetricRecords] : d = DataFrame(rs)

MetricFunctions ==
    {"format_datetime", "calculate_renewable_percentage", "aggregate_by_type",
     "calculate_daily_average"}

\* ------------------------------------------------------------------------
\* One call of a metric
\* ------------------------------------------------------------------------
\* The state of a call: data is the argument as it was passed, frames[1] the
\* caller's table as it is now, result the value returned, ref the object
\* returned (in state "formatted": the object df_copy).
MetricsInit ==
    /\ fn \in MetricFunctions
    /\ IsMetricInput(data)
    /\ frames = IF data = JNull THEN <<>> ELSE <<data>>
    /\ pc = "call"
    /\ result = JNull
    /\ ref = 0
    /\ exc = ""
    /\ values = <<>>
    /\ idx = 1
    /\ records = <<>>
    /\ sent = <<>>
    /\ FreshSession

\* The argument: the caller's table, or None.
Arg == IF data = JNull THEN 0 ELSE 1

\* The call returns, or raises.
Finish(out) ==
    /\ frames' = out.heap
    /\ ref' = out.ref
    /\ IF out.ok
       THEN pc' = "returned" /\ result' = out.val /\ UNCHANGED exc
       ELSE pc' = "raised" /\ exc' = out.exc /\ UNCHANGED result
    /\ UNCHANGED <<fn, data, values, idx, records, sent>>
    /\ NoSession

CallFormatDatetime ==
    /\ fn = "format_datetime" /\ pc = "call"
    /\ Finish(FormatDatetime(frames, Arg, "datetime"))

CallRenewablePercentage ==
    /\ fn = "calculate_renewable_percentage" /\ pc = "call"
    /\ Finish(CalculateRenewablePercentage(frames, Arg))

CallAggregateByType ==
    /\ fn = "aggregate_by_type" /\ pc = "call"
    /\ Finish(AggregateByType(frames, Arg, "value"))

\* Line 80: df_copy = format_datetime(df, datetime_col).
DailyAverageFormat ==
    /\ fn = "calculate_daily_average" /\ pc = "call"
    /\ LET out == FormatDatetime(frames, Arg, "datetime")
       IN  /\ frames' = out.heap
           /\ ref' = out.ref
           /\ IF out.ok
              THEN pc' = "formatted" /\ UNCHANGED exc
              ELSE pc' = "raised" /\ exc' = out.exc
    /\ UNCHANGED <<fn, data, values, idx, records, result, sent>>
    /\ NoSession

\* Lines 82-88.
DailyAverageGroup ==
    /\ fn = "calculate_daily_average" /\ pc = "formatted"
    /\ Finish(DailyAverageOfCopy(frames, ref, "datetime", "value"))

MetricsNext ==
    \/ CallFormatDatetime
    \/ CallRenewablePercentage
    \/ CallAggregateByType
    \/ DailyAverageFormat
    \/ DailyAverageGroup

SpecMetrics == MetricsInit /\ [][MetricsNext]_vars

MetricsTypeOK ==
    /\ pc \in {"call", "formatted", "returned", "raised"}
    /\ ref \in 0..Len(frames)
    /\ (pc = "raised") = (exc # "")
    /\ Len(frames) <= 3

\* ------------------------------------------------------------------------
\* Properties of the metrics
\* ------------------------------------------------------------------------
\* The argument is a table (not None) and has the columns of a Record.
IsTable == data # JNull
HasRecordColumns == IsTable /\ HasColumn(data, "type") /\ HasColumn(data, "value")

RECURSIVE ValueSum(_, _)
\* The sum of the values of the rows of the argument whose index is in I.
ValueSum(rows, I) ==
    IF I = {} THEN 0
    ELSE LET j == CHOOSE j \in I : TRUE
         IN  Field(rows[j], "value").num + ValueSum(rows, I \ {j})

AllRowsIdx == 1..Len(data.rows)
RenewableIdx == {j \in AllRowsIdx : Field(data.rows[j], "type").str \in RenewableTypes}
TotalSum == ValueSum(data.rows, AllRowsIdx)
RenewableSum == ValueSum(data.rows, RenewableIdx)

RenewableShare == fn = "calculate_renewable_percentage"
ZeroFloat == [kind |-> "float", num |-> 0, den |-> 1]

\* C11: on an empty table, and on a table whose values sum to exactly zero,
\* calculate_renewable_percentage does not raise and returns exactly 0.0.
C11_ZeroShare ==
    (RenewableShare /\ IsTable /\ (IsEmpty(data) \/ (HasRecordColumns /\ TotalSum = 0))) =>
        /\ pc # "raised"
        /\ Returned => result = ZeroFloat

\* Positive and negative values that cancel.
C11_Witness ==
    /\ RenewableShare /\ Returned /\ result = ZeroFloat
    /\ IsTable /\ Len(data.rows) = 2
    /\ Field(data.rows[1], "type") = JStr("Wind") /\ Field(data.rows[1], "value") = JNum(100)
    /\ Field(data.rows[2], "value") = JNum(-100)

\* C12: on a table with a non-zero total, the result is 100 times the sum of
\* the values of the rows whose type is in the renewable set, divided by the
\* sum of all values; the table of the test (Wind 200, Solar PV 100,
\* Nuclear 400, Coal 300) gives 30.
C12_ShareIsQuotient ==
    (RenewableShare /\ HasRecordColumns /\ ~IsEmpty(data) /\ TotalSum # 0) =>
        /\ pc # "raised"
        /\ Returned =>
              /\ result.kind = "float" /\ result.den > 0
              /\ result.num * TotalSum = 100 * RenewableSum * result.den
              /\ data = TestRenewableTable => (result.num = 30 /\ result.den = 1)

C12_Witness ==
    RenewableShare /\ Returned /\ data = TestRenewableTable /\ result.num = 30

\* C13: the result of calculate_renewable_percentage lies in [0, 100].
C13_ShareInRange ==
    (RenewableShare /\ Returned) =>
        /\ 0 <= result.num
        /\ result.num <= 100 * result.den

\* The non-empty tables of Records the grouping functions accept.
Grouped == HasRecordColumns /\ ~IsEmpty(data)
TypesPresent == {Field(data.rows[j], "type") : j \in AllRowsIdx}
IdxOfType(t) == {j \in AllRowsIdx : Field(data.rows[j], "type") = t}
Aggregation == fn = "aggregate_by_type"
ResultIdx == 1..Len(result.rows)

\* C14: aggregate_by_type returns exactly one row per type present in the
\* table, and the value of the row is the sum of the values of the rows of
\* that type; the table of the test (Wind 100, Wind 150, Solar PV 200,
\* Solar PV 250) gives Wind 250 and Solar PV 450.
C14_OneSumPerType ==
    (Aggregation /\ Grouped) =>
        /\ pc # "raised"
        /\ Returned =>
              /\ Len(result.rows) = Cardinality(TypesPresent)
              /\ {Field(result.rows[n], "type") : n \in ResultIdx} = TypesPresent
              /\ \A n \in ResultIdx :
                    Field(result.rows[n], "value") =
                        JNum(ValueSum(data.rows, IdxOfType(Field(result.rows[n], "type"))))
              /\ data = TestAggregateTable =>
                    \E a, b \in ResultIdx :
                        /\ result.rows[a] = TypeValue("Wind", 250)
                        /\ result.rows[b] = TypeValue("Solar PV", 450)

\* Two rows of one type with different values, and a row of another type.
C14_Witness ==
    /\ Aggregation /\ Returned /\ data = TestAggregateTable
    /\ Len(result.rows) = 2

FirstIdxOfType(t) == CHOOSE j \in IdxOfType(t) : \A i \in IdxOfType(t) : j <= i

\* C15 (as stated): the rows of the result of aggregate_by_type are in the
\* order in which their types first occur in the table.
C15_FirstOccurrenceOrder ==
    (Aggregation /\ Grouped /\ Returned) =>
        \A a, b \in ResultIdx :
            a < b => FirstIdxOfType(Field(result.rows[a], "type"))
                        < FirstIdxOfType(Field(result.rows[b], "type"))

\* C15 (amended): the rows of the result of aggregate_by_type are in
\* ascending order of the type name, whatever the order of the table: for a
\* table whose first row is Wind and second is Coal, Coal precedes Wind.
C15_AscendingNameOrder ==
    (Aggregation /\ Grouped /\ Returned) =>
        /\ \A a, b \in ResultIdx :
              a < b => TypeRank(Field(result.rows[a], "type"))
                          < TypeRank(Field(result.rows[b], "type"))
        /\ (Field(data.rows[1], "type") = JStr("Wind") /\ Len(data.rows) = 2
              /\ Field(data.rows[2], "type") = JStr("Coal")) =>
                 /\ Field(result.rows[1], "type") = JStr("Coal")
                 /\ Field(result.rows[2], "type") = JStr("Wind")

C15_Witness ==
    /\ Aggregation /\ Grouped /\ Returned
    /\ Len(data.rows) = 2
    /\ Field(data.rows[1], "type") = JStr("Wind")
    /\ Field(data.rows[2], "type") = JStr("Coal")
    /\ Field(result.rows[1], "type") = JStr("Coal")

DailyAverage == fn = "calculate_daily_average"
\* The timestamp of a row can be read as a date-time.
DateTimeTexts ==
    {"2023-01-01 12:00:00", "2023-01-01 18:00:00", "2023-01-02 12:00:00",
     "2023-01-02 18:00:00"}
Parseable(r) ==
    /\ HasKey(r, "datetime")
    /\ \/ Field(r, "datetime").kind = "timestamp"
       \/ Field(r, "datetime").kind = "str" /\ Field(r, "datetime").str \in DateTimeTexts
AllParseable == \A j \in AllRowsIdx : Parseable(data.rows[j])
\* The calendar date of the timestamp of a row, and the rows of one bucket.
DayOf(r) == ToDatetime(Field(r, "datetime")).val.day
BucketsPresent == {<<DayOf(data.rows[j]), Field(data.rows[j], "type")>> : j \in AllRowsIdx}
IdxOfBucket(day, t) ==
    {j \in AllRowsIdx : DayOf(data.rows[j]) = day /\ Field(data.rows[j], "type") = t}
BucketOf(r) == <<Field(r, "date").day, Field(r, "type")>>

\* C16: calculate_daily_average returns exactly one row per (calendar date of
\* the timestamp, type) pair present in the table, and the value of the row
\* times the number of rows of the pair is the sum of their values (the
\* arithmetic mean); two Wind rows of one day with 100 and 200 give one row
\* with 150.
C16_OneMeanPerBucket ==
    (DailyAverage /\ Grouped /\ HasColumn(data, "datetime") /\ AllParseable) =>
        /\ pc # "raised"
        /\ Returned =>
              /\ Len(result.rows) = Cardinality(BucketsPresent)
              /\ {BucketOf(result.rows[n]) : n \in ResultIdx} = BucketsPresent
              /\ \A n \in ResultIdx :
                    LET r == result.rows[n]
                        I == IdxOfBucket(Field(r, "date").day, Field(r, "type"))
                        v == Field(r, "value")
                    IN  /\ v.kind = "float" /\ v.den > 0
                        /\ v.num * Cardinality(I) = ValueSum(data.rows, I) * v.den
              /\ (Len(data.rows) = 2
                   /\ \A j \in AllRowsIdx : /\ DayOf(data.rows[j]) = 1
                                            /\ Field(data.rows[j], "type") = JStr("Wind")
                   /\ Field(data.rows[1], "value") = JNum(100)
                   /\ Field(data.rows[2], "value") = JNum(200)) =>
                     /\ Len(result.rows) = 1
                     /\ Field(result.rows[1], "value") = Float(150, 1)

\* Two Wind rows of 2023-01-01, at 12:00 and at 18:00.
C16_Witness ==
    /\ DailyAverage /\ Returned /\ Grouped /\ Len(data.rows) = 2
    /\ Field(data.rows[1], "datetime") = JStr("2023-01-01 12:00:00")
    /\ Field(data.rows[2], "datetime") = JStr("2023-01-01 18:00:00")
    /\ Field(data.rows[1], "value") = JNum(100)
    /\ Field(data.rows[2], "value") = JNum(200)
    /\ Len(result.rows) = 1
    /\ Field(result.rows[1], "value") = Float(150, 1)

\* The entry of a response a row of the table comes from.
EntryOfRow(r) == JDict(<<KV("datetime", Field(r, "datetime")), KV("value", Field(r, "value"))>>)

\* C17: when the timestamp of some row cannot be parsed, calculate_daily_average
\* raises and returns nothing, whereas parse_generation_data passes the same
\* timestamp through as it is, without failing.
C17_UnparseableTimestampFails ==
    (DailyAverage /\ Grouped /\ HasColumn(data, "datetime") /\ ~AllParseable) =>
        /\ ~Returned
        /\ pc = "raised" => (exc = "ValueError" /\ result = JNull /\ ref = 0)
        /\ \A j \in AllRowsIdx :
              LET r == data.rows[j]
              IN  ~Parseable(r) =>
                      GenerationEntry(EntryOfRow(r)) =
                          Done(<<GenRecord(Field(r, "datetime"), JStr("total"), Field(r, "value"))>>)

C17_Witness ==
    /\ DailyAverage /\ pc = "raised" /\ Grouped
    /\ Field(data.rows[1], "datetime") = JStr("not a date")
    /\ Len(data.rows) = 2 /\ Parseable(data.rows[2])

\* C18: on None and on an empty table, calculate_renewable_percentage returns
\* 0.0 and aggregate_by_type and calculate_daily_average return an empty
\* table, none of them raising.
C18_EmptyOrNoneDefined ==
    (fn # "format_datetime" /\ (~IsTable \/ IsEmpty(data))) =>
        /\ pc # "raised"
        /\ Returned => IF RenewableShare THEN result = ZeroFloat
                       ELSE result.rows = <<>>

\* C19: a metrics function leaves the table it is given as it was, and a
\* non-empty table it returns is another object than the one it was given.
C19_InputUnchanged ==
    IsTable =>
        /\ Len(frames) >= 1 /\ frames[1] = data
        /\ (Returned /\ ref # 0 /\ ~IsEmpty(result)) => ref # 1

\* format_datetime on string timestamps: the copy holds Timestamps, the
\* caller's table still holds the strings.
C19_Witness ==
    /\ fn = "format_datetime" /\ Returned /\ IsTable /\ Len(data.rows) = 2
    /\ Field(data.rows[1], "datetime").kind = "str"
    /\ Field(result.rows[1], "datetime").kind = "timestamp"
    /\ ref = 2 /\ frames[1] = data /\ frames[2] = result

\* ------------------------------------------------------------------------
\* REEClient: the methods that fetch from the API
\* ------------------------------------------------------------------------
BASE_URL == "https://api.esios.ree.es"
INDICATORS ==
    [hydro_programmed_pbf_ugh |-> 1, price_spot |-> 1013, demand_actual |-> 1293,
     generation_mix |-> 1125, co2_emissions |-> 10033]
GEO_IDS == [spain_peninsula |-> 8741, canary_islands |-> 8742]
DefaultTimeout == 30

\* An argument the caller leaves out, so that the default of the method applies.
Omitted == [kind |-> "omitted"]
OrDefault(arg, default) == IF arg = Omitted THEN default ELSE arg

\* The arguments get_indicator_values is called with.
ValuesArgs(indicator_id, start_date, end_date, geo_ids, group_by) ==
    [indicator_id |-> indicator_id, start_date |-> start_date, end_date |-> end_date,
     geo_ids |-> geo_ids, group_by |-> group_by]

\* Lines 223-316: the convenience methods pass their dates and their
\* group_by (with the default of each) to get_indicator_values, with the
\* indicator of each and no geo_ids.
Wrappers ==
    [get_hydro_generation |-> [id |-> INDICATORS.hydro_programmed_pbf_ugh, group_by |-> "day"],
     get_electricity_prices |-> [id |-> INDICATORS.price_spot, group_by |-> "hour"],
     get_demand_data |-> [id |-> INDICATORS.demand_actual, group_by |-> "hour"],
     get_generation_mix |-> [id |-> INDICATORS.generation_mix, group_by |-> "hour"],
     get_co2_emissions |-> [id |-> INDICATORS.co2_emissions, group_by |-> "day"]]
WrapperMethods == DOMAIN Wrappers

WrapperArgs(m, start_date, end_date, group_by) ==
    ValuesArgs(Wrappers[m].id, start_date, end_date, JNull,
               OrDefault(group_by, JStr(Wrappers[m].group_by)))

\* Lines 358-369: get_real_time_data asks for the generation mix of today, by hour.
RealTimeArgs(today) == WrapperArgs("get_generation_mix", JStr(today), JStr(today), JStr("hour"))

\* The parameters with the defaults applied to None only (`is None`).
ValuesParamsNoneOnly(a, today) ==
    [start_date |-> IF a.start_date # JNull THEN a.start_date ELSE JStr(today),
     end_date |-> IF a.end_date # JNull THEN a.end_date ELSE JStr(today),
     geo_ids |-> IF a.geo_ids # JNull THEN a.geo_ids
                 ELSE JList(<<JNum(GEO_IDS.spain_peninsula)>>),
     group_by |-> OrDefault(a.group_by, JStr("hour"))]

\* Lines 200-216: the parameters get_indicator_values builds.
ValuesParams(a, today) ==
    [start_date |-> IF PyTruthy(a.start_date) THEN a.start_date ELSE JStr(today),
     end_date |-> IF PyTruthy(a.end_date) THEN a.end_date ELSE JStr(today),
     geo_ids |-> IF PyTruthy(a.geo_ids) THEN a.geo_ids
                 ELSE JList(<<JNum(GEO_IDS.spain_peninsula)>>),
     group_by |-> OrDefault(a.group_by, JStr("hour"))]

\* Lines 123-130: the call of session.get that _make_request issues; its
\* outcome is open until the session answers.
Request(endpoint, params, timeout) ==
    [url |-> BASE_URL \o "/" \o endpoint, params |-> params, timeout |-> timeout,
     outcome |-> "pending"]
IndicatorEndpoint(indicator_id) == "indicators/" \o ToString(indicator_id)

\* The request a method makes of its arguments.
RequestOf(m, a, timeout, today) ==
    CASE m = "get_all_indicators" -> Request("indicators", JNull, timeout)
      [] m = "get_indicator" -> Request(IndicatorEndpoint(a.indicator_id), JNull, timeout)
      [] m = "get_indicator_values" ->
            Request(IndicatorEndpoint(a.indicator_id), ValuesParams(a, today), timeout)
      [] m = "get_real_time_data" ->
            LET w == RealTimeArgs(today)
            IN  Request(IndicatorEndpoint(w.indicator_id), ValuesParams(w, today), timeout)
      [] OTHER ->
            LET w == WrapperArgs(m, a.start_date, a.end_date, a.group_by)
            IN  Request(IndicatorEndpoint(w.indicator_id), ValuesParams(w, today), timeout)

\* Lines 154-158: what get_all_indicators makes of the body of the response.
IndicatorsOf(body) ==
    IF ~PyTruthy(body) THEN Ok(JList(<<>>))
    ELSE LET has == PyIn("indicators", body)
         IN  IF ~has.ok THEN has
             ELSE IF PyTruthy(has.val) THEN PyGetItem(body, "indicators")
             ELSE Ok(JList(<<>>))

\* What a method returns when _make_request returns body.
OnResponse(m, body) ==
    IF m = "get_all_indicators"
    THEN LET got == IndicatorsOf(body)
         IN  IF got.ok THEN got ELSE Ok(JList(<<>>))      \* lines 159-161
    ELSE Ok(body)

\* What a method does when _make_request raises e (re-raised at line 145):
\* get_all_indicators and get_indicator catch it, the others let it through.
OnFailure(m, e) ==
    CASE m = "get_all_indicators" -> Ok(JList(<<>>))      \* lines 159-161
      [] m = "get_indicator" -> Ok(JDict(<<>>))           \* lines 175-177
      [] OTHER -> Raise(e)

\* What the session may raise: no connection, no answer within the timeout,
\* a status of 400 and above (raise_for_status).
TransportErrors == {"ConnectionError", "Timeout", "HTTPError"}

\* Bodies the API may answer with.
Bodies ==
    {JNull, JDict(<<>>), JNum(1),
     JDict(<<KV("indicators", JList(<<JDict(<<KV("id", JNum(1))>>)>>))>>),
     JDict(<<KV("indicator", JDict(<<KV("values", JList(<<>>))>>))>>)}

ClientMethods ==
    {"get_all_indicators", "get_indicator", "get_indicator_values", "get_real_time_data"}
        \cup WrapperMethods

ArgDates == {JNull, JStr(""), JStr("2023-01-01")}
ArgGeoIds ==
    {JNull, JList(<<>>), JList(<<JNum(GEO_IDS.canary_islands)>>),
     JList(<<JNum(GEO_IDS.spain_peninsula), JNum(GEO_IDS.canary_islands)>>)}
ArgGroupBy == {Omitted, JStr("hour"), JStr("month")}
ArgIndicators == {INDICATORS.price_spot, INDICATORS.generation_mix}
ArgTimeouts == {DefaultTimeout, 5}
Today == "2023-01-02"
NoArgs == ValuesArgs(0, JNull, JNull, JNull, Omitted)

\* The arguments a method takes; those it does not take are left as in NoArgs.
IsCall(m, a) ==
    CASE m \in {"get_all_indicators", "get_real_time_data"} -> a = NoArgs
      [] m = "get_indicator" ->
            \E i \in ArgIndicators : a = [NoArgs EXCEPT !.indicator_id = i]
      [] m = "get_indicator_values" ->
            \E i \in ArgIndicators : \E sd \in ArgDates : \E ed \in ArgDates :
                \E g \in ArgGeoIds : \E gb \in ArgGroupBy :
                    a = ValuesArgs(i, sd, ed, g, gb)
      [] OTHER ->
            \E sd \in ArgDates : \E ed \in ArgDates : \E gb \in ArgGroupBy :
                a = ValuesArgs(0, sd, ed, JNull, gb)

\* data is the call: the arguments, the timeout the client was built with
\* and the date of the day.
ClientInit ==
    /\ fn \in ClientMethods
    /\ \E t \in ArgTimeouts :
          \E a \in [indicator_id : ArgIndicators \cup {0}, start_date : ArgDates,
                    end_date : ArgDates, geo_ids : ArgGeoIds, group_by : ArgGroupBy] :
              /\ IsCall(fn, a)
              /\ data = [args |-> a, timeout |-> t, today |-> Today]
    /\ pc = "call"
    /\ sent = <<>>
    /\ FreshSession
    /\ result = JNull
    /\ exc = ""
    /\ values = <<>>
    /\ idx = 1
    /\ records = <<>>
    /\ frames = <<>>
    /\ ref = 0

\* Line 130: the method reaches session.get.
MakeRequest ==
    /\ pc = "call"
    /\ sent' = Append(sent, RequestOf(fn, data.args, data.timeout, data.today))
    /\ pc' = "awaiting"
    /\ UNCHANGED <<fn, data, values, idx, records, result, exc, frames, ref>>
    /\ NoSession

\* The outcome of session.get under a session that tries a failed request
\* once more.
AnsweredThenRetried(outcome) ==
    LET answered == [sent EXCEPT ![Len(sent)].outcome = outcome]
    IN  IF outcome = "ok" THEN answered ELSE Append(answered, sent[Len(sent)])

\* The outcome of session.get is known.
Answered(outcome) == [sent EXCEPT ![Len(sent)].outcome = outcome]

\* Lines 136-139: the response has a good status and a JSON body.
RequestSucceeds ==
    /\ pc = "awaiting"
    /\ \E body \in Bodies :
          /\ sent' = Answered("ok")
          /\ result' = OnResponse(fn, body).val
    /\ pc' = "returned"
    /\ UNCHANGED <<fn, data, values, idx, records, exc, frames, ref>>
    /\ NoSession

\* Lines 140-145: session.get or raise_for_status raises.
RequestFails ==
    /\ pc = "awaiting"
    /\ \E e \in TransportErrors :
          LET out == OnFailure(fn, e)
          IN  /\ sent' = Answered(e)
              /\ IF out.ok
                 THEN pc' = "returned" /\ result' = out.val /\ UNCHANGED exc
                 ELSE pc' = "raised" /\ exc' = out.exc /\ UNCHANGED result
    /\ UNCHANGED <<fn, data, values, idx, records, frames, ref>>
    /\ NoSession

ClientNext ==
    \/ MakeRequest
    \/ RequestSucceeds
    \/ RequestFails

SpecClient == ClientInit /\ [][ClientNext]_vars

ClientTypeOK ==
    /\ fn \in ClientMethods
    /\ pc \in {"call", "awaiting", "returned", "raised"}
    /\ Len(sent) <= 1
    /\ \A j \in 1..Len(sent) : sent[j].outcome \in {"pending", "ok"} \cup TransportErrors
    /\ exc \in {""} \cup TransportErrors

\* ------------------------------------------------------------------------
\* Properties of the fetch methods
\* ------------------------------------------------------------------------
\* The request of the call failed in the transport.
TransportFailed == \E j \in 1..Len(sent) : sent[j].outcome \in TransportErrors

\* C20: when the request of a fetch method fails, the method raises; it never
\* returns (empty data or anything else).
C20_TransportFailurePropagates ==
    TransportFailed => (pc = "raised" /\ exc \in TransportErrors)

\* The invocation is over.
CallOver == pc \in {"returned", "raised"}

\* C21: an invocation of a fetch method issues exactly one GET, with the
\* timeout the client was built with; once the request has failed (or timed
\* out) there is still only that one request.
C21_OneRequestPerCall ==
    /\ Len(sent) <= 1
    /\ \A j \in 1..Len(sent) : sent[j].timeout = data.timeout
    /\ (pc = "awaiting" \/ CallOver) => Len(sent) = 1
    /\ TransportFailed => (CallOver /\ Len(sent) = 1)

\* A call of a client built with another timeout than the default, whose
\* request timed out.
C21_Witness ==
    /\ CallOver /\ Len(sent) = 1
    /\ sent[1].outcome = "Timeout"
    /\ data.timeout # DefaultTimeout /\ sent[1].timeout = data.timeout

ValuesCall == fn = "get_indicator_values" /\ Len(sent) >= 1
Absent(arg) == arg = JNull
PeninsulaOnly == JList(<<JNum(8741)>>)
GroupBySent == IF data.args.group_by = Omitted THEN JStr("hour") ELSE data.args.group_by

\* C27 (as stated): get_indicator_values sends to indicators/<indicator_id>
\* the caller's start_date, end_date, geo_ids and group_by unchanged, with the
\* current date for an absent start_date or end_date and [8741] for absent or
\* empty geo_ids.
C27_ParamsPassedThrough ==
    ValuesCall =>
        LET a == data.args
            q == sent[1].params
        IN  /\ Len(sent) = 1
            /\ sent[1].url = BASE_URL \o "/indicators/" \o ToString(a.indicator_id)
            /\ q.start_date = IF Absent(a.start_date) THEN JStr(data.today) ELSE a.start_date
            /\ q.end_date = IF Absent(a.end_date) THEN JStr(data.today) ELSE a.end_date
            /\ q.geo_ids = IF Absent(a.geo_ids) \/ a.geo_ids = JList(<<>>)
                           THEN PeninsulaOnly ELSE a.geo_ids
            /\ q.group_by = GroupBySent

\* C27 (amended): as above, the current date standing in for a start_date or
\* end_date that is absent or the empty string.
C27_ParamsWithDefaults ==
    ValuesCall =>
        LET a == data.args
            q == sent[1].params
            NoDate(d) == Absent(d) \/ d = JStr("")
        IN  /\ Len(sent) = 1
            /\ sent[1].url = BASE_URL \o "/indicators/" \o ToString(a.indicator_id)
            /\ q.start_date = IF NoDate(a.start_date) THEN JStr(data.today) ELSE a.start_date
            /\ q.end_date = IF NoDate(a.end_date) THEN JStr(data.today) ELSE a.end_date
            /\ q.geo_ids = IF Absent(a.geo_ids) \/ a.geo_ids = JList(<<>>)
                           THEN PeninsulaOnly ELSE a.geo_ids
            /\ q.group_by = GroupBySent

\* A call with an empty start_date, a given end_date and no zone.
C27_Witness ==
    /\ ValuesCall /\ CallOver
    /\ data.args.start_date = JStr("") /\ sent[1].params.start_date = JStr(data.today)
    /\ data.args.end_date = JStr("2023-01-01") /\ sent[1].params.end_date = JStr("2023-01-01")
    /\ data.args.geo_ids = JList(<<>>) /\ sent[1].params.geo_ids = PeninsulaOnly
    /\ data.args.group_by = JStr("month") /\ sent[1].params.group_by = JStr("month")

\* ------------------------------------------------------------------------
\* Properties of parse_indicator_data (normalize_scalar_series)
\* ------------------------------------------------------------------------
ScalarSeries == fn = "parse_indicator_data"
AllStamped == \A k \in 1..Len(InputEntries) : IsStamped(InputEntries[k])

\* C23: for a response with N entries of a timestamp and a value,
\* parse_indicator_data returns exactly N rows, the k-th with the timestamp
\* and the value of the k-th entry, whatever the shape of that value.
C23_OneRowPerEntry ==
    (ScalarSeries /\ HasValuesList(data) /\ AllStamped) =>
        /\ pc # "raised"
        /\ Returned =>
              /\ Len(result.rows) = Len(InputEntries)
              /\ \A k \in 1..Len(InputEntries) :
                    /\ Field(result.rows[k], "datetime") = Field(InputEntries[k], "datetime")
                    /\ Field(result.rows[k], "value") = Field(InputEntries[k], "value")

\* A typed list, then a mapping.
C23_Witness ==
    /\ ScalarSeries /\ Returned /\ HasValuesList(data)
    /\ Len(InputEntries) = 2 /\ Len(result.rows) = 2
    /\ ShapeOf(InputEntries[1]) = "list" /\ ShapeOf(InputEntries[2]) = "dict"
    /\ Field(result.rows[1], "value") = Field(InputEntries[1], "value")

\* ------------------------------------------------------------------------
\* REEClient.to_dataframe
\* ------------------------------------------------------------------------
\* col.lower() and `"datetime" in ...` on the column names explored.
Lower(col) == IF col = "Datetime" THEN "datetime" ELSE col
ContainsDatetime(name) == name \in {"datetime", "datetime_utc"}

\* dict.get(key, default)
PyGet(d, key, default) == IF HasKey(d, key) THEN PyGetItem(d, key).val ELSE default

\* The guard of parse_generation_data, `not data or "indicator" not in data`,
\* which does not look for "values".
LacksIndicator(d) ==
    IF ~PyTruthy(d) THEN Ok(JNum(1))
    ELSE LET hasInd == PyIn("indicator", d)
         IN  IF ~hasInd.ok THEN hasInd
             ELSE Ok(IF PyTruthy(hasInd.val) THEN JNum(0) ELSE JNum(1))

\* Lines 331-333: the guard `not data or "indicator" not in data or "values"
\* not in data["indicator"]`, left to right: TRUE or FALSE in val, or the
\* TypeError of `in` on a value that holds nothing.
LacksValues(d) ==
    IF ~PyTruthy(d) THEN Ok(JNum(1))
    ELSE LET hasInd == PyIn("indicator", d)
         IN  IF ~hasInd.ok THEN hasInd
             ELSE IF ~PyTruthy(hasInd.val) THEN Ok(JNum(1))
             ELSE LET hasVal == PyIn("values", PyGetItem(d, "indicator").val)
                  IN  IF ~hasVal.ok THEN hasVal
                      ELSE Ok(IF PyTruthy(hasVal.val) THEN JNum(0) ELSE JNum(1))

\* Lines 346-349: pd.to_datetime on every column whose name holds "datetime".
ConvertDatetimeColumns(df) ==
    LET IsDt(col) == ContainsDatetime(Lower(col))
        Bad(r) == \E j \in 1..Len(r.pairs) :
                      IsDt(r.pairs[j].key) /\ ~ToDatetime(r.pairs[j].val).ok
        Conv(r) == JDict([j \in 1..Len(r.pairs) |->
                             IF IsDt(r.pairs[j].key)
                             THEN KV(r.pairs[j].key, ToDatetime(r.pairs[j].val).val)
                             ELSE r.pairs[j]])
    IN  IF \E k \in 1..Len(df.rows) : Bad(df.rows[k]) THEN Raise("ValueError")
        ELSE Ok([columns |-> df.columns, rows |-> [k \in 1..Len(df.rows) |-> Conv(df.rows[k])]])

\* A column holding one value in every row.
Repeat(df, v) == [k \in 1..Len(df.rows) |-> v]

\* Lines 351-354: the indicator's name and id on every row.
AddIndicatorColumns(df, indicator) ==
    SetColumn(SetColumn(df, "indicator_name",
                        Repeat(df, PyGet(indicator, "name", JStr("Unknown")))),
              "indicator_id", Repeat(df, PyGet(indicator, "id", JNull)))

\* Lines 320-356: to_dataframe(data).  A list of numbers makes a table
\* whose one column is named 0, and col.lower() raises on it.
ToDataframe(d) ==
    LET lacks == LacksValues(d)
        indicator == PyGetItem(d, "indicator").val
        got == PyGetItem(indicator, "values")
        vals == got.val
        conv == ConvertDatetimeColumns(DataFrame(vals.items))
    IN  IF ~lacks.ok THEN Raise(lacks.exc)
        ELSE IF PyTruthy(lacks.val) THEN Ok(EmptyDataFrame)
        ELSE IF ~got.ok THEN Raise(got.exc)
        ELSE IF ~PyTruthy(vals) THEN Ok(EmptyDataFrame)
        ELSE IF \A j \in 1..Len(vals.items) : vals.items[j].kind = "num"
        THEN Raise("AttributeError")
        ELSE IF ~conv.ok THEN conv
        ELSE Ok(AddIndicatorColumns(conv.val, indicator))

\* The entries of a response of the API: a timestamp and a value, and maybe
\* a zone or a second timestamp.
FrameStamps == {"2023-01-01 12:00:00", "2023-01-01 18:00:00", "not a date"}
FrameValues == {JNum(100), JNum(200)}
FrameExtras ==
    {<<>>, <<KV("geo_id", JNum(GEO_IDS.spain_peninsula))>>,
     <<KV("datetime_utc", JStr("not a date"))>>,
     <<KV("Datetime", JStr("2023-01-02 12:00:00"))>>}
FrameEntries ==
    {JDict(<<KV("datetime", JStr(ts)), KV("value", v)>> \o extra) :
        ts \in FrameStamps, v \in FrameValues, extra \in FrameExtras}

\* What the indicator says of itself.
IndicatorHeads ==
    {<<>>, <<KV("name", JStr("Test Indicator"))>>, <<KV("id", JNum(1))>>,
     <<KV("id", JNum(1)), KV("name", JStr("Test Indicator"))>>}

\* Responses without entries of that kind.
OtherResponses ==
    {JNull, JDict(<<>>), JDict(<<KV("error", JStr("x"))>>),
     JDict(<<KV("indicator", JNull)>>), JDict(<<KV("indicator", JNum(1))>>),
     JDict(<<KV("indicator", JDict(<<KV("values", JNull)>>))>>),
     JDict(<<KV("indicator", JDict(<<KV("values", JList(<<JNum(1), JNum(2)>>))>>))>>)}
        \cup {JDict(<<KV("indicator", JDict(h))>>) : h \in IndicatorHeads}

IsFrameInput(d) ==
    \/ d \in OtherResponses
    \/ \E h \in IndicatorHeads : \E n \in 0..MaxEntries : \E es \in [1..n -> FrameEntries] :
          d = JDict(<<KV("indicator", JDict(h \o <<KV("values", JList(es))>>))>>)

FrameInit ==
    /\ fn = "to_dataframe"
    /\ IsFrameInput(data)
    /\ pc = "call"
    /\ result = JNull
    /\ exc = ""
    /\ values = <<>>
    /\ idx = 1
    /\ records = <<>>
    /\ frames = <<>>
    /\ ref = 0
    /\ sent = <<>>
    /\ FreshSession

\* The call of to_dataframe, to its return or its exception.
ToDataframeCall ==
    /\ fn = "to_dataframe" /\ pc = "call"
    /\ LET out == ToDataframe(data)
       IN  IF out.ok
           THEN pc' = "returned" /\ result' = out.val /\ UNCHANGED exc
           ELSE pc' = "raised" /\ exc' = out.exc /\ UNCHANGED result
    /\ UNCHANGED <<fn, data, values, idx, records, frames, ref, sent>>
    /\ NoSession

FrameNext == ToDataframeCall

SpecFrame == FrameInit /\ [][FrameNext]_vars

\* ------------------------------------------------------------------------
\* Properties of to_dataframe
\* ------------------------------------------------------------------------
IsMapping(d) == d.kind = "dict"
IndicatorOf(d) == Field(d, "indicator")
\* The five responses without data: None, {}, no indicator, an indicator
\* without values, an empty values sequence.
WithoutData(d) ==
    \/ d = JNull
    \/ d = JDict(<<>>)
    \/ IsMapping(d) /\ ~HasKey(d, "indicator")
    \/ IsMapping(d) /\ HasKey(d, "indicator") /\ IsMapping(IndicatorOf(d))
         /\ \/ ~HasKey(IndicatorOf(d), "values")
            \/ Field(IndicatorOf(d), "values") = JList(<<>>)

\* C22: to_dataframe returns an empty table, without raising, on None, on {},
\* on a response without 'indicator', on one whose indicator has no 'values'
\* and on one whose 'values' is empty.
C22_NoDataGivesEmptyTable ==
    (fn = "to_dataframe" /\ WithoutData(data)) =>
        /\ pc # "raised"
        /\ Returned => (result = EmptyDataFrame /\ IsEmpty(result))

\* An indicator with a name and no values, as in the test.
C22_Witness ==
    /\ fn = "to_dataframe" /\ Returned /\ IsEmpty(result)
    /\ data = JDict(<<KV("indicator", JDict(<<KV("name", JStr("Test Indicator"))>>))>>)

\* The response carries a non-empty values sequence.
HasEntries(d) ==
    /\ IsMapping(d) /\ HasKey(d, "indicator") /\ IsMapping(IndicatorOf(d))
    /\ HasKey(IndicatorOf(d), "values")
    /\ Field(IndicatorOf(d), "values").kind = "list"
    /\ Len(Field(IndicatorOf(d), "values").items) > 0
FrameInputEntries == Field(IndicatorOf(data), "values").items

\* C25: for a response with N > 0 entries, to_dataframe returns N rows, the
\* k-th with the value of the k-th entry, each with indicator_name (the
\* indicator's name, or "Unknown") and indicator_id (its id, or null).
C25_RowsWithIndicator ==
    (fn = "to_dataframe" /\ HasEntries(data)) =>
        /\ pc # "raised"
        /\ Returned =>
              /\ Len(result.rows) = Len(FrameInputEntries)
              /\ \A k \in 1..Len(FrameInputEntries) :
                    /\ Field(result.rows[k], "value") = Field(FrameInputEntries[k], "value")
                    /\ Field(result.rows[k], "indicator_name") =
                          (IF HasKey(IndicatorOf(data), "name")
                           THEN Field(IndicatorOf(data), "name") ELSE JStr("Unknown"))
                    /\ Field(result.rows[k], "indicator_id") =
                          (IF HasKey(IndicatorOf(data), "id")
                           THEN Field(IndicatorOf(data), "id") ELSE JNull)

\* ------------------------------------------------------------------------
\* extract_time_series
\* ------------------------------------------------------------------------
\* d[key] = val on the pairs of a dict: the value replaced where the key is
\* already held, the pair appended otherwise.
SetItem(ps, key, val) ==
    IF \E j \in 1..Len(ps) : ps[j].key = key
    THEN [j \in 1..Len(ps) |-> IF ps[j].key = key THEN KV(key, val) ELSE ps[j]]
    ELSE Append(ps, KV(key, val))

RECURSIVE CopyExtras(_, _)
\* Lines 117-119: the fields of the value other than datetime and value are
\* set on the entry, in the order of the value.
CopyExtras(entry, ps) ==
    IF ps = <<>> THEN entry
    ELSE CopyExtras(IF Head(ps).key \notin {"datetime", "value"}
                    THEN SetItem(entry, Head(ps).key, Head(ps).val) ELSE entry,
                    Tail(ps))

\* Lines 111-121: the entry built of one value of an item.
SeriesEntry(attributes, value) ==
    LET dt == PyGetItem(value, "datetime")
        ti == PyGetItem(attributes, "title")
        vv == PyGetItem(value, "value")
    IN  IF ~dt.ok THEN Fail(dt.exc, <<>>)
        ELSE IF ~ti.ok THEN Fail(ti.exc, <<>>)
        ELSE IF ~vv.ok THEN Fail(vv.exc, <<>>)
        ELSE Done(<<JDict(CopyExtras(<<KV("datetime", dt.val), KV("type", ti.val),
                                       KV("value", vv.val)>>, value.pairs))>>)

RECURSIVE SeriesEntries(_, _)
\* Lines 110-121: the loop over the values of an item, to its end or to the
\* first value that raises.
SeriesEntries(attributes, vals) ==
    IF vals = <<>> THEN Done(<<>>)
    ELSE LET first == SeriesEntry(attributes, Head(vals))
             rest == SeriesEntries(attributes, Tail(vals))
         IN  IF ~first.ok THEN first
             ELSE IF ~rest.ok THEN rest
             ELSE Done(first.recs \o rest.recs)

\* The body of the loop over the items without lines 107-108: no item is
\* left out.
SeriesItemUnfiltered(item, indicator) ==
    LET at == PyGetItem(item, "attributes")
        vs == PyGetItem(at.val, "values")
    IN  IF ~at.ok THEN Fail(at.exc, <<>>)
        ELSE IF ~vs.ok THEN Fail(vs.exc, <<>>)
        ELSE SeriesEntries(at.val, vs.val.items)

\* Lines 106-121: the body of the loop over the items, for one item.
SeriesItem(item, indicator) ==
    LET at == PyGetItem(item, "attributes")
        vs == PyGetItem(at.val, "values")
    IN  IF ~at.ok THEN Fail(at.exc, <<>>)
        ELSE IF PyTruthy(indicator) /\ PyGet(at.val, "title", JNull) # indicator
        THEN Done(<<>>)
        ELSE IF ~vs.ok THEN Fail(vs.exc, <<>>)
        ELSE SeriesEntries(at.val, vs.val.items)

\* Lines 101-102: `not data or 'included' not in data`.
LacksIncluded(d) ==
    IF ~PyTruthy(d) THEN Ok(JNum(1))
    ELSE LET has == PyIn("included", d)
         IN  IF ~has.ok THEN has
             ELSE Ok(IF PyTruthy(has.val) THEN JNum(0) ELSE JNum(1))

\* The responses explored: values with a timestamp and a value, some with a
\* further field, one of them named type; one value without timestamp.
SeriesValue(ts, v, extra) == JDict(<<KV("datetime", JStr(ts)), KV("value", JNum(v))>> \o extra)
SeriesValueLists ==
    {<<>>,
     <<SeriesValue("2023-01-01 12:00:00", 100, <<>>)>>,
     <<SeriesValue("2023-01-01 12:00:00", 100, <<>>),
       SeriesValue("2023-01-01 18:00:00", 200, <<>>)>>,
     <<SeriesValue("2023-01-01 12:00:00", 100, <<KV("percentage", JNum(25))>>)>>,
     <<SeriesValue("2023-01-01 12:00:00", 100, <<KV("type", JStr("Other"))>>)>>,
     <<JDict(<<KV("value", JNum(100))>>)>>}
SeriesTitles == {"Wind", "Demand", ""}
SeriesItem1(t, vs) ==
    JDict(<<KV("attributes", JDict(<<KV("title", JStr(t)), KV("values", JList(vs))>>))>>)
SeriesItems ==
    {SeriesItem1(t, vs) : t \in SeriesTitles, vs \in SeriesValueLists}
      \cup {JDict(<<KV("attributes", JDict(<<KV("values", JList(vs))>>))>>) :
              vs \in {<<>>, <<SeriesValue("2023-01-01 12:00:00", 100, <<>>)>>}}
      \cup {JDict(<<KV("id", JStr("x"))>>)}
SeriesFilters == {JNull, JStr(""), JStr("Wind"), JStr("Solar")}

\* A call: the response and the indicator to filter by.
IsSeriesCall(c) ==
    \E f \in SeriesFilters :
        \/ \E d \in {JNull, JDict(<<>>), JDict(<<KV("indicator", JDict(<<>>))>>)} :
              c = [response |-> d, indicator |-> f]
        \/ \E n \in 0..MaxEntries : \E is \in [1..n -> SeriesItems] :
              c = [response |-> JDict(<<KV("included", JList(is))>>), indicator |-> f]

SeriesInit ==
    /\ fn = "extract_time_series"
    /\ IsSeriesCall(data)
    /\ pc = "call"
    /\ values = <<>>
    /\ idx = 1
    /\ records = <<>>
    /\ result = JNull
    /\ exc = ""
    /\ frames = <<>>
    /\ ref = 0
    /\ sent = <<>>
    /\ FreshSession

\* Lines 101-106: the guard, result = [] and the start of the loop.
SeriesEnter ==
    /\ pc = "call"
    /\ LET lacks == LacksIncluded(data.response)
           it == PyIter(PyGetItem(data.response, "included").val)
       IN  IF ~lacks.ok
           THEN pc' = "raised" /\ exc' = lacks.exc /\ UNCHANGED <<values, result>>
           ELSE IF PyTruthy(lacks.val)
           THEN pc' = "returned" /\ result' = EmptyDataFrame /\ UNCHANGED <<values, exc>>
           ELSE IF ~it.ok
           THEN pc' = "raised" /\ exc' = it.exc /\ UNCHANGED <<values, result>>
           ELSE pc' = "loop" /\ values' = it.val.items /\ UNCHANGED <<result, exc>>
    /\ UNCHANGED <<fn, data, idx, records>>
    /\ NoObjects

\* Lines 106-121: one item of the loop.
SeriesStep ==
    /\ pc = "loop" /\ idx <= Len(values)
    /\ LET out == SeriesItem(values[idx], data.indicator)
       IN  IF out.ok
           THEN /\ records' = records \o out.recs
                /\ idx' = idx + 1
                /\ UNCHANGED <<pc, exc>>
           ELSE /\ pc' = "raised" /\ exc' = out.exc
                /\ UNCHANGED <<records, idx>>
    /\ UNCHANGED <<fn, data, values, result>>
    /\ NoObjects

\* Line 123: return pd.DataFrame(result).
SeriesReturn ==
    /\ pc = "loop" /\ idx > Len(values)
    /\ pc' = "returned"
    /\ result' = DataFrame(records)
    /\ UNCHANGED <<fn, data, values, idx, records, exc>>
    /\ NoObjects

SeriesNext ==
    \/ SeriesEnter
    \/ SeriesStep
    \/ SeriesReturn

SpecSeries == SeriesInit /\ [][SeriesNext]_vars

\* ------------------------------------------------------------------------
\* Properties of extract_time_series
\* ------------------------------------------------------------------------
\* The response holds items under 'included', each with a title and values
\* of a timestamp and a value.
IncludedItems == Field(data.response, "included").items
WellFormedItem(item) ==
    /\ IsMapping(item) /\ HasKey(item, "attributes")
    /\ HasKey(Field(item, "attributes"), "title")
    /\ HasKey(Field(item, "attributes"), "values")
    /\ \A j \in 1..Len(Field(Field(item, "attributes"), "values").items) :
          IsStamped(Field(Field(item, "attributes"), "values").items[j])
WellFormedSeries ==
    /\ IsMapping(data.response) /\ HasKey(data.response, "included")
    /\ \A k \in 1..Len(IncludedItems) : WellFormedItem(IncludedItems[k])
TitleOf(item) == Field(Field(item, "attributes"), "title")

RECURSIVE Sourced(_, _)
\* The values of the items that pass the filter with the title of their
\* item, item after item, value after value.
Sourced(items, Passes) ==
    IF items = <<>> THEN <<>>
    ELSE LET vs == Field(Field(Head(items), "attributes"), "values").items
             here == IF Passes[TitleOf(Head(items))]
                     THEN [j \in 1..Len(vs) |-> [title |-> TitleOf(Head(items)), value |-> vs[j]]]
                     ELSE <<>>
         IN  here \o Sourced(Tail(items), Passes)

TitlesPresent == {TitleOf(IncludedItems[k]) : k \in 1..Len(IncludedItems)}
\* Every item passes; only the items of the title asked for pass.
AllPass == [t \in TitlesPresent |-> TRUE]
OnlyTitle(f) == [t \in TitlesPresent |-> t = f]

\* The rows are those of the sourced values, in their order.
RowsFollow(src) ==
    /\ Len(result.rows) = Len(src)
    /\ \A k \in 1..Len(src) :
          /\ Field(result.rows[k], "datetime") = Field(src[k].value, "datetime")
          /\ Field(result.rows[k], "value") = Field(src[k].value, "value")

Series == fn = "extract_time_series"
NoIncluded == data.response = JNull \/ (IsMapping(data.response) /\ ~HasKey(data.response, "included"))

\* C28 (as stated): an empty table when the data is absent or has no
\* 'included'; otherwise one row per value of every item, item after item
\* and value after value; and with a filter given, rows of the items of that
\* title only.
C28_RowsOfIncluded ==
    Series =>
        /\ NoIncluded => (pc # "raised" /\ (Returned => result = EmptyDataFrame))
        /\ (~NoIncluded /\ WellFormedSeries) =>
              /\ pc # "raised"
              /\ Returned => RowsFollow(Sourced(IncludedItems,
                                 IF data.indicator = JNull THEN AllPass
                                 ELSE OnlyTitle(data.indicator)))

\* C28 (amended): as above, the filter being in force when it is a
\* non-empty string; None and "" leave every item in.
C28_RowsOfIncludedNonEmptyFilter ==
    Series =>
        /\ NoIncluded => (pc # "raised" /\ (Returned => result = EmptyDataFrame))
        /\ (~NoIncluded /\ WellFormedSeries) =>
              /\ pc # "raised"
              /\ Returned => RowsFollow(Sourced(IncludedItems,
                                 IF data.indicator \in {JNull, JStr("")} THEN AllPass
                                 ELSE OnlyTitle(data.indicator)))

\* Two items, Demand then Wind with two values, filtered by Wind.
C28_Witness ==
    /\ Series /\ Returned /\ ~NoIncluded /\ WellFormedSeries
    /\ data.indicator = JStr("Wind")
    /\ Len(IncludedItems) = 2
    /\ TitleOf(IncludedItems[1]) = JStr("Demand")
    /\ Len(Field(Field(IncludedItems[1], "attributes"), "values").items) = 1
    /\ TitleOf(IncludedItems[2]) = JStr("Wind")
    /\ Len(result.rows) = 2
    /\ Field(result.rows[2], "datetime") = JStr("2023-01-01 18:00:00")

\* C29: every row has the title of its item as type and the timestamp and
\* the value of its value.
C29_RowFieldsKept ==
    (Series /\ Returned /\ ~NoIncluded /\ WellFormedSeries) =>
        LET src == Sourced(IncludedItems,
                           IF data.indicator \in {JNull, JStr("")} THEN AllPass
                           ELSE OnlyTitle(data.indicator))
        IN  \A k \in 1..Len(result.rows) :
                k <= Len(src) =>
                    /\ Field(result.rows[k], "type") = src[k].title
                    /\ Field(result.rows[k], "datetime") = Field(src[k].value, "datetime")
                    /\ Field(result.rows[k], "value") = Field(src[k].value, "value")

\* ------------------------------------------------------------------------
\* The charts (reepi/visualizations/charts.py)
\* ------------------------------------------------------------------------
\* A plotly figure, as far as the page tells figures apart.
Figure(title, kind) == [title |-> title, kind |-> kind]

PlotKinds ==
    [plot_generation_mix |-> "area", plot_price_comparison |-> "line",
     plot_demand_curve |-> "line", plot_co2_emissions |-> "bar"]
PlotTitles ==
    [plot_generation_mix |-> "Electricity Generation Mix",
     plot_price_comparison |-> "Electricity Price Evolution",
     plot_demand_curve |-> "Electricity Demand",
     plot_co2_emissions |-> "CO2 Emissions",
     plot_renewable_percentage |-> "Renewable Energy Percentage"]
PlotFunctions == DOMAIN PlotTitles

\* Lines 27-46, 64-83, 101-120, 140-165, 183-202: a chart function on a table
\* with rows.
PlotRows(f, df, title) ==
    IF f = "plot_renewable_percentage"
    THEN LET pct == CalculateRenewablePercentage(<<df>>, 1)
         IN  [ok |-> pct.ok, exc |-> pct.exc, val |-> Figure(title, "gauge"), df |-> df]
    ELSE LET conv == FormatDatetime(<<df>>, 1, "datetime")
             table == IF conv.ok THEN conv.val ELSE df
         IN  IF ~conv.ok
             THEN [ok |-> FALSE, exc |-> conv.exc, val |-> JNull, df |-> df]
             ELSE IF \E c \in {"datetime", "value", "type"} : ~HasColumn(table, c)
             THEN [ok |-> FALSE, exc |-> "ValueError", val |-> JNull, df |-> table]
             ELSE [ok |-> TRUE, exc |-> "", val |-> Figure(title, PlotKinds[f]), df |-> table]

\* A chart function without its `if df.empty` branch.
PlotUnguarded(f, df, title) == PlotRows(f, df, title)

\* Lines 11-202: a chart function on df: the figure, or the exception, and
\* df as the call leaves it (the datetime column is converted in place).
Plot(f, df, title) ==
    IF IsEmpty(df)
    THEN [ok |-> TRUE, exc |-> "", val |-> Figure("No data available", "none"), df |-> df]
    ELSE PlotRows(f, df, title)

\* What the page shows: st.error, st.warning, st.metric, st.plotly_chart.
Shown(kind, what) == [kind |-> kind, what |-> what]

\* Lines 218-248 of display_metric_cards: the three metrics of a table with
\* rows.  (The values shown are those of the last row of each type.)
MetricCards(df) ==
    IF \E c \in {"datetime", "type", "value"} : ~HasColumn(df, c) THEN Raise("KeyError")
    ELSE Ok(<<Shown("metric", "Total Generation"), Shown("metric", "Renewable Generation"),
              Shown("metric", "Largest Source")>>)

\* Lines 204-248: display_metric_cards(df): what it shows, or its exception.
DisplayMetricCards(df) ==
    IF IsEmpty(df) THEN Ok(<<Shown("warning", "No data available for metrics")>>)
    ELSE MetricCards(df)

\* ------------------------------------------------------------------------
\* The dashboard (reepi/app.py)
\* ------------------------------------------------------------------------
RECURSIVE SeriesLoop(_, _)
\* Lines 106-121 of extract_time_series: the loop over the items, to its end
\* or to the first item that raises.
SeriesLoop(items, indicator) ==
    IF items = <<>> THEN Done(<<>>)
    ELSE LET first == SeriesItem(Head(items), indicator)
             rest == SeriesLoop(Tail(items), indicator)
         IN  IF ~first.ok THEN first
             ELSE IF ~rest.ok THEN rest
             ELSE Done(first.recs \o rest.recs)

\* extract_time_series(data, indicator) as one call: the table or the exception.
ExtractTimeSeries(d, indicator) ==
    LET lacks == LacksIncluded(d)
        it == PyIter(PyGetItem(d, "included").val)
        out == SeriesLoop(it.val.items, indicator)
    IN  IF ~lacks.ok THEN Raise(lacks.exc)
        ELSE IF PyTruthy(lacks.val) THEN Ok(EmptyDataFrame)
        ELSE IF ~it.ok THEN Raise(it.exc)
        ELSE IF ~out.ok THEN Raise(out.exc)
        ELSE Ok(DataFrame(out.recs))

\* client.<name>(body): of the methods load_data could call on a response
\* REEClient defines to_dataframe only (client.py lines 20-369); an
\* attribute the class does not define raises AttributeError.
ClientParse(name, body) ==
    IF name # "to_dataframe" THEN Raise("AttributeError")
    ELSE ToDataframe(body)

\* format_datetime(df) on the table of a parser, as load_data calls it.
Formatted(parsed) ==
    IF ~parsed.ok THEN parsed
    ELSE LET conv == FormatDatetime(<<parsed.val>>, 1, "datetime")
         IN  IF conv.ok THEN Ok(conv.val) ELSE Raise(conv.exc)

LoadStep(fetch, parser, key) == [fetch |-> fetch, parser |-> parser, key |-> key]

\* Lines 105-140: the fetches of load_data and the parser of each, by data type.
LoadPlan ==
    [x \in {"Generation Mix", "Electricity Prices", "Demand", "CO2 Emissions", "Dashboard"} |->
        CASE x = "Generation Mix" ->
                <<LoadStep("get_generation_mix", "parse_generation_data", "generation")>>
          [] x = "Electricity Prices" ->
                <<LoadStep("get_electricity_prices", "parse_price_data", "prices")>>
          [] x = "Demand" ->
                <<LoadStep("get_demand_data", "extract_time_series", "demand")>>
          [] x = "CO2 Emissions" ->
                <<LoadStep("get_co2_emissions", "extract_time_series", "co2")>>
          [] x = "Dashboard" ->
                <<LoadStep("get_generation_mix", "parse_generation_data", "generation"),
                  LoadStep("get_electricity_prices", "parse_price_data", "prices"),
                  LoadStep("get_demand_data", "extract_time_series", "demand")>>]

\* The table a step of load_data makes of the body fetched.
ParseStep(step, body) ==
    Formatted(IF step.parser = "extract_time_series"
              THEN ExtractTimeSeries(body, JNull)
              ELSE ClientParse(step.parser, body))

\* What load_data returns: a table, or a dict of tables by key.
Loaded(kind, keys, tables) ==
    [kind |-> kind, panels |-> [j \in 1..Len(tables) |-> [key |-> keys[j], table |-> tables[j]]]]

\* Lines 108-140: what load_data returns of the tables of its steps.
LoadValue(data_type, tables) ==
    IF data_type = "Dashboard"
    THEN Loaded("dict", [j \in 1..Len(tables) |-> LoadPlan[data_type][j].key], tables)
    ELSE Loaded("table", <<"data">>, tables)

\* Line 147: what load_data returns from its except branch.
LoadFailedValue(data_type) ==
    IF data_type = "Dashboard" THEN Loaded("dict", <<>>, <<>>)
    ELSE Loaded("table", <<"data">>, <<EmptyDataFrame>>)

\* data[key] of the dict returned, data itself of the table returned.
TableOf(v, key) == v.panels[CHOOSE j \in 1..Len(v.panels) : v.panels[j].key = key].table

\* `if data:` on a dict, `not data.empty` on a table.
HasData(v) ==
    IF v.kind = "dict" THEN Len(v.panels) > 0 ELSE ~IsEmpty(TableOf(v, "data"))

\* st.cache_data: the entry of the cache for these arguments, if any.
CachedFor(a) == {c \in cache : c.args = a}

\* One part of the page: the function called on data[key] where that table
\* has rows, and the warning shown, if any, where it has none.
Part(f, key, title, none) == [f |-> f, key |-> key, title |-> title, none |-> none]

\* Lines 153-328: the parts of the page of each data type, and the warning
\* shown in place of them all where load_data returned nothing.
PageParts ==
    [x \in {"Generation Mix", "Electricity Prices", "Demand", "CO2 Emissions", "Dashboard"} |->
        CASE x = "Generation Mix" ->
                <<Part("plot_generation_mix", "data", "Electricity Generation Mix", ""),
                  Part("plot_renewable_percentage", "data", "Renewable Energy Percentage", "")>>
          [] x = "Electricity Prices" ->
                <<Part("plot_price_comparison", "data", "Electricity Price Evolution", "")>>
          [] x = "Demand" ->
                <<Part("plot_demand_curve", "data", "Electricity Demand", "")>>
          [] x = "CO2 Emissions" ->
                <<Part("plot_co2_emissions", "data", "CO2 Emissions", "")>>
          [] x = "Dashboard" ->
                <<Part("display_metric_cards", "generation", "", ""),
                  Part("plot_generation_mix", "generation", "Generation Mix",
                       "No generation data available."),
                  Part("plot_demand_curve", "demand", "Electricity Demand",
                       "No demand data available."),
                  Part("plot_renewable_percentage", "generation", "Renewable Energy Percentage",
                       "No generation data available for renewable percentage."),
                  Part("plot_price_comparison", "prices", "Electricity Prices",
                       "No price data available.")>>]
NothingToShow ==
    [x \in {"Generation Mix", "Electricity Prices", "Demand", "CO2 Emissions", "Dashboard"} |->
        CASE x = "Generation Mix" -> "No generation mix data available for the selected period."
          [] x = "Electricity Prices" -> "No price data available for the selected period."
          [] x = "Demand" -> "No demand data available for the selected period."
          [] x = "CO2 Emissions" -> "No CO2 emissions data available for the selected period."
          [] x = "Dashboard" -> "Failed to load dashboard data. Please try again."]

\* What one part of the page shows of its table, or the exception it raises.
Panel(part, df) ==
    IF IsEmpty(df)
    THEN Ok(IF part.none = "" THEN <<>> ELSE <<Shown("warning", part.none)>>)
    ELSE IF part.f = "display_metric_cards" THEN DisplayMetricCards(df)
    ELSE LET fig == Plot(part.f, df, part.title)
         IN  IF fig.ok THEN Ok(<<Shown("chart", fig.val.title)>>) ELSE Raise(fig.exc)

RECURSIVE Stacked(_, _)
\* The parts of a page one after the other, to the first that raises.
Stacked(parts, v) ==
    IF parts = <<>> THEN Ok(<<>>)
    ELSE LET first == Panel(Head(parts), TableOf(v, Head(parts).key))
             rest == Stacked(Tail(parts), v)
         IN  IF ~first.ok THEN first
             ELSE IF ~rest.ok THEN rest
             ELSE Ok(first.val \o rest.val)

\* Lines 153-328: what the page shows of the value load_data returned.
Page(data_type, v) ==
    IF ~HasData(v) THEN Ok(<<Shown("warning", NothingToShow[data_type])>>)
    ELSE Stacked(PageParts[data_type], v)

\* The selections of the sidebar explored (lines 57-99): every data type,
\* one range of dates, the aggregation by day the selector starts with.
LoadArgs ==
    [data_type : DOMAIN LoadPlan, start_date : {"2023-01-01"}, end_date : {"2023-01-02"},
     time_trunc : {"day"}]

\* The bodies the API answers the dashboard with: an indicator with two
\* values, a series under 'included' with two values, a series with a
\* timestamp no date can be read of, nothing.
AppBodies ==
    {JDict(<<KV("indicator", JDict(<<KV("name", JStr("Generation")),
                KV("values", JList(<<SeriesValue("2023-01-01 12:00:00", 100, <<>>),
                                     SeriesValue("2023-01-01 18:00:00", 200, <<>>)>>))>>))>>),
     JDict(<<KV("included", JList(<<SeriesItem1("Demand",
                <<SeriesValue("2023-01-01 12:00:00", 100, <<>>),
                  SeriesValue("2023-01-01 18:00:00", 200, <<>>)>>)>>))>>),
     JDict(<<KV("included", JList(<<SeriesItem1("Demand",
                <<SeriesValue("not a date", 100, <<>>)>>)>>))>>),
     JDict(<<>>)}

\* The bound on the runs of the script in a session.
MaxLoads == 2

\* The tables the chart functions are called with directly.
ChartTables ==
    {EmptyDataFrame, TestDailyTable, TestRenewableTable,
     DataFrame(<<JDict(<<KV("datetime", JStr("not a date")), KV("type", JStr("Wind")),
                         KV("value", JNum(1))>>)>>)}

\* The script is run on a selection, or a chart function is called on a table.
AppInit ==
    /\ fn \in {"app", "display_metric_cards"} \cup PlotFunctions
    /\ IF fn = "app"
       THEN data \in LoadArgs /\ pc = "run" /\ frames = <<>>
       ELSE data = JNull /\ pc = "call" /\ frames \in {<<t>> : t \in ChartTables}
    /\ ref = 0
    /\ sent = <<>>
    /\ FreshSession
    /\ result = JNull
    /\ exc = ""
    /\ values = <<>>
    /\ idx = 1
    /\ records = <<>>

\* Lines 11-202: a chart function called on the table frames[1].
PlotCall ==
    /\ pc = "call" /\ fn \in PlotFunctions
    /\ LET out == Plot(fn, frames[1], PlotTitles[fn])
       IN  /\ frames' = <<out.df>>
           /\ IF out.ok THEN pc' = "returned" /\ result' = out.val /\ exc' = exc
              ELSE pc' = "raised" /\ exc' = out.exc /\ result' = result
    /\ UNCHANGED <<fn, data, values, idx, records, ref, sent>>
    /\ NoSession

\* Lines 204-248: display_metric_cards called on the table frames[1].
DisplayMetricCardsCall ==
    /\ pc = "call" /\ fn = "display_metric_cards"
    /\ LET out == DisplayMetricCards(frames[1])
       IN  IF out.ok THEN pc' = "returned" /\ ui' = ui \o out.val /\ exc' = exc
           ELSE pc' = "raised" /\ exc' = out.exc /\ ui' = ui
    /\ UNCHANGED <<fn, data, values, idx, records, result, frames, ref, sent, cache, loads>>

\* One call of load_data: its arguments, the requests it made, the bodies it
\* was answered with.
Load(a) == [args |-> a, requests |-> 0, bodies |-> <<>>]

\* Lines 102, 151: load_data is called with arguments st.cache_data holds a
\* value for: the value and the messages stored are given back, the
\* function is not run.
LoadDataCached ==
    /\ fn = "app" /\ pc = "run"
    /\ \E c \in CachedFor(data) :
          /\ result' = c.value
          /\ ui' = ui \o c.shown
    /\ loads' = Append(loads, Load(data))
    /\ pc' = "render"
    /\ UNCHANGED <<fn, data, values, idx, records, exc, frames, ref, sent, cache>>

\* Lines 102-104, 151: load_data is called with arguments st.cache_data
\* holds nothing for: the function is run.
LoadDataRun ==
    /\ fn = "app" /\ pc = "run"
    /\ CachedFor(data) = {}
    /\ loads' = Append(loads, Load(data))
    /\ idx' = 1
    /\ records' = <<>>
    /\ pc' = "fetch"
    /\ UNCHANGED <<fn, data, values, result, exc, frames, ref, sent, cache, ui>>

\* The step of load_data at hand.
StepAtHand == LoadPlan[data.data_type][idx]

\* Lines 106, 111, 116, 121, 127, 130, 133: the client is asked for the data
\* of the step; the client of get_client() has the default timeout.
LoadFetch ==
    /\ fn = "app" /\ pc = "fetch"
    /\ sent' = Append(sent, RequestOf(StepAtHand.fetch,
                                      [start_date |-> JStr(data.start_date),
                                       end_date |-> JStr(data.end_date),
                                       group_by |-> JStr(data.time_trunc)],
                                      DefaultTimeout, Today))
    /\ loads' = [loads EXCEPT ![Len(loads)].requests = @ + 1]
    /\ pc' = "awaiting"
    /\ UNCHANGED <<fn, data, values, idx, records, result, exc, frames, ref, cache, ui>>

\* Lines 144-147 and the decorator of line 102: load_data ends in its except
\* branch: the error is shown, the empty value returned and stored.
LoadFailed(e) ==
    /\ ui' = Append(ui, Shown("error", e))
    /\ result' = LoadFailedValue(data.data_type)
    /\ cache' = cache \cup {[args |-> data, value |-> LoadFailedValue(data.data_type),
                             shown |-> <<Shown("error", e)>>]}
    /\ pc' = "render"
    /\ UNCHANGED <<idx, records>>

\* Lines 136-142 and the decorator of line 102: load_data returns the tables
\* of its steps; the value is stored.
LoadReturned(tables) ==
    /\ result' = LoadValue(data.data_type, tables)
    /\ cache' = cache \cup {[args |-> data, value |-> LoadValue(data.data_type, tables),
                             shown |-> <<>>]}
    /\ pc' = "render"
    /\ UNCHANGED <<idx, records, ui>>

\* The client returns the body of the response; load_data parses it and goes
\* on to its next step, returns, or ends in its except branch.
LoadFetchSucceeds ==
    /\ fn = "app" /\ pc = "awaiting"
    /\ sent' = Answered("ok")
    /\ \E body \in AppBodies :
          /\ loads' = [loads EXCEPT ![Len(loads)].bodies = Append(@, body)]
          /\ LET out == ParseStep(StepAtHand, body)
             IN  IF ~out.ok THEN LoadFailed(out.exc)
                 ELSE IF idx = Len(LoadPlan[data.data_type])
                 THEN LoadReturned(Append(records, out.val))
                 ELSE /\ records' = Append(records, out.val)
                      /\ idx' = idx + 1
                      /\ pc' = "fetch"
                      /\ UNCHANGED <<result, cache, ui>>
    /\ UNCHANGED <<fn, data, values, exc, frames, ref>>

\* The request fails; the methods of the client load_data calls let the
\* exception through (client.py lines 223-316), to the except branch.
LoadFetchFails ==
    /\ fn = "app" /\ pc = "awaiting"
    /\ \E e \in TransportErrors :
          /\ sent' = Answered(e)
          /\ LoadFailed(OnFailure(StepAtHand.fetch, e).exc)
    /\ UNCHANGED <<fn, data, values, exc, frames, ref, loads>>

\* Lines 153-328: the page is drawn of the value load_data returned.
Render ==
    /\ fn = "app" /\ pc = "render"
    /\ LET page == Page(data.data_type, result)
       IN  IF page.ok THEN pc' = "shown" /\ ui' = ui \o page.val /\ exc' = exc
           ELSE pc' = "raised" /\ exc' = page.exc /\ ui' = ui
    /\ UNCHANGED <<fn, data, values, idx, records, result, frames, ref, sent, cache, loads>>

\* The user changes the selection, or not, and Streamlit runs the script
\* again on an empty page.
Rerun ==
    /\ fn = "app" /\ pc = "shown"
    /\ Len(loads) < MaxLoads
    /\ data' \in LoadArgs
    /\ ui' = <<>>
    /\ pc' = "run"
    /\ UNCHANGED <<fn, values, idx, records, result, exc, frames, ref, sent, cache, loads>>

\* Line 102, ttl=3600: an entry of the cache is an hour old and dropped.
CacheExpires ==
    /\ fn = "app" /\ pc = "shown"
    /\ \E c \in cache : cache' = cache \ {c}
    /\ UNCHANGED <<fn, data, pc, values, idx, records, result, exc, frames, ref, sent, ui, loads>>

AppNext ==
    \/ PlotCall
    \/ DisplayMetricCardsCall
    \/ LoadDataCached
    \/ LoadDataRun
    \/ LoadFetch
    \/ LoadFetchSucceeds
    \/ LoadFetchFails
    \/ Render
    \/ Rerun
    \/ CacheExpires

SpecApp == AppInit /\ [][AppNext]_vars


\* ------------------------------------------------------------------------
\* Properties of the charts and of the dashboard
\* ------------------------------------------------------------------------
\* The call of a chart function or of display_metric_cards has ended.
ChartCallOver == fn # "app" /\ pc # "call"
GivenEmptyTable == Len(frames[1].rows) = 0 \/ Len(frames[1].columns) = 0

\* The run of load_data at hand, which st.cache_data did not answer, is over.
LastLoad == loads[Len(loads)]
LoadRunOver == fn = "app" /\ pc = "render" /\ LastLoad.requests > 0
FetchFailed == sent[Len(sent)].outcome \in {"ConnectionError", "Timeout", "HTTPError"}
ErrorShown == \E j \in 1..Len(ui) : ui[j].kind = "error"
NothingLoaded ==
    IF result.kind = "dict" THEN result.panels = <<>>
    ELSE Len(result.panels[1].table.rows) = 0 \/ Len(result.panels[1].table.columns) = 0

\* C24: absence of data is shown, never a crash: a chart function given an
\* empty table returns a figure titled "No data available",
\* display_metric_cards given an empty table shows a warning and returns,
\* and a failure while loading data ends in an error message and an empty
\* result, no exception leaving load_data or the page.
C24_NoDataShown ==
    /\ (ChartCallOver /\ GivenEmptyTable /\ fn # "display_metric_cards")
          => pc = "returned" /\ result.title = "No data available"
    /\ (ChartCallOver /\ GivenEmptyTable /\ fn = "display_metric_cards")
          => /\ pc = "returned"
             /\ ui = <<[kind |-> "warning", what |-> "No data available for metrics"]>>
    /\ fn = "app" => pc # "raised"
    /\ (LoadRunOver /\ FetchFailed) => ErrorShown /\ NothingLoaded

\* A chart function has returned the figure of an empty table.
C24_Witness ==
    /\ fn = "plot_renewable_percentage" /\ pc = "returned"
    /\ GivenEmptyTable
    /\ result.title = "No data available"

\* The load was answered without a request being made for it.
ServedFromStore(j) == loads[j].requests = 0
LoadOver(j) == j < Len(loads) \/ pc \in {"render", "shown", "raised"}

\* C26: no cross-call caching: of two successive loads with the same data
\* type, dates and aggregation each issues its own API requests; the second
\* is not served from the result of the first.
C26_EachLoadFetches ==
    fn = "app" =>
        \A j \in 2..Len(loads) :
            (loads[j].args = loads[j - 1].args /\ LoadOver(j)) => ~ServedFromStore(j)

\* Every body the load was answered with carries a non-empty values sequence.
FetchedWithValues ==
    /\ \A j \in 1..Len(sent) : sent[j].outcome = "ok"
    /\ \A j \in 1..Len(LastLoad.bodies) :
          LET b == LastLoad.bodies[j]
          IN  /\ b.kind = "dict" /\ HasKey(b, "indicator")
              /\ HasKey(Field(b, "indicator"), "values")
              /\ Len(Field(Field(b, "indicator"), "values").items) > 0
PanelKeys == {result.panels[j].key : j \in 1..Len(result.panels)}

\* C30: where the fetch succeeds with a non-empty values sequence,
\* load_data returns a non-empty table for Generation Mix and Electricity
\* Prices and a mapping of generation, prices and demand for Dashboard; its
\* error branch is reached only when the fetch fails.
C30_LoadsWhatWasFetched ==
    (LoadRunOver /\ data.data_type \in {"Generation Mix", "Electricity Prices", "Dashboard"})
        => /\ FetchedWithValues =>
                IF data.data_type = "Dashboard"
                THEN result.kind = "dict" /\ PanelKeys = {"generation", "prices", "demand"}
                ELSE result.kind = "table" /\ ~NothingLoaded
           /\ ErrorShown => FetchFailed

====
